---- MODULE Spec2Model ----
(***************************************************************************)
(* Flowchart traversal engine of alramalho/tracking-software               *)
(* (backend/ai/assistant).  FlowchartLLMFramework walks a graph of nodes,  *)
(* asking the language model for a decision, a structured extraction or a  *)
(* final text at each node.                                                *)
(*                                                                         *)
(* Two engines are modelled.  framework = "flowchart" is the class defined *)
(* in ai/assistant/flowchart.py.  framework = "flowchart_framework" is the *)
(* class that week_analyser.py imports from ai/assistant/                  *)
(* flowchart_framework.py; that module defines the loop nodes              *)
(* (loop_start / loop_continue) and the ${name} templates and is modelled  *)
(* from the written specification.                                         *)
(***************************************************************************)
EXTENDS Integers, Sequences, FiniteSets, TLC

(***************************************************************************)
(* Bounds of the model.                                                    *)
(***************************************************************************)
\* run() calls made in one behaviour, over all engine instances
MaxRuns == 2
\* node visits explored in one run (the source loop has no bound of its own)
MaxVisits == 8
\* the defensive node-visit cap of the specified engine
StepCap == 18

(***************************************************************************)
(* Python dicts keep insertion order: a dict is a sequence of <<key,value>>.*)
(***************************************************************************)
DictKeys(d) == [i \in 1..Len(d) |-> d[i][1]]

DictValues(d) == [i \in 1..Len(d) |-> d[i][2]]

DictHas(d, k) == \E i \in 1..Len(d) : d[i][1] = k

DictGet(d, k) == d[CHOOSE i \in 1..Len(d) : d[i][1] = k][2]

\* d[k] = v : an existing key keeps its position, a new key is appended
DictSetKeepFirst(d, k, v) ==
    IF DictHas(d, k) THEN d ELSE Append(d, <<k, v>>)

DictSet(d, k, v) ==
    IF DictHas(d, k)
    THEN [i \in 1..Len(d) |-> IF d[i][1] = k THEN <<k, v>> ELSE d[i]]
    ELSE Append(d, <<k, v>>)

SeqToSet(s) == {s[i] : i \in 1..Len(s)}

(***************************************************************************)
(* Flowchart data.  A node is a record; a key the Python dict leaves out   *)
(* is "None" (schema, type, iterator, collection) or the empty dict        *)
(* (connections).  text is a sequence of tokens: literal text and          *)
(* "${name}" placeholders.                                                 *)
(***************************************************************************)
None == "None"

\* a node literal that carries a "temperature" key
NodeT(text, connections, schema, temperature) ==
    [text |-> text, connections |-> connections, schema |-> schema,
     temperature |-> temperature,
     type |-> None, iterator |-> None, collection |-> None]

\* a node literal without one
Node(text, connections, schema) == NodeT(text, connections, schema, None)

LoopNode(type, iterator, collection, connections) ==
    [text |-> <<>>, connections |-> connections, schema |-> None,
     temperature |-> None,
     type |-> type, iterator |-> iterator, collection |-> collection]

first_message_flowchart ==
    << <<"FirstTimeEver",
         Node(<<"is this the first time ever talking to the user?">>,
              << <<"Yes", "Introduce">>, <<"No", "FirstTimeToday">> >>, None)>>,
       <<"Introduce", Node(<<"Introduce yourself">>, <<>>, None)>>,
       <<"FirstTimeToday",
         Node(<<"is this the first time talking today?">>,
              << <<"Yes", "Greet">>, <<"No", "End">> >>, None)>>,
       <<"Greet", Node(<<"Greet the user">>, <<>>, None)>>,
       <<"End", Node(<<"Conclude the conversation">>, <<>>, None)>> >>

every_message_flowchart ==
    << <<"ActivityScanner",
         NodeT(<<"Did the user mention any activity not extracted yet?">>,
               << <<"Yes", "CheckActivityQualifies">>, <<"No", "Converse">> >>, None,
               "0.7")>>,
       <<"CheckActivityQualifies",
         NodeT(<<"Does the activity exist in the user's activities list?">>,
               << <<"Yes", "CheckActivityMeasurement">>,
                  <<"No", "InformTheUserOnlyExistingActivitiesAreSupported">> >>, None,
               "0.7")>>,
       <<"CheckActivityMeasurement",
         Node(<<"Did the user mention the date and the measure?">>,
              << <<"No", "AskForMoreInformation">>, <<"Yes", "ExtractActivity">> >>, None)>>,
       <<"AskForMoreInformation", Node(<<"Ask the user for the missing information">>, <<>>, None)>>,
       <<"ExtractActivity",
         Node(<<"Extract new activities from the user's message">>,
              << <<"default", "InformTheUserAboutTheActivity">> >>,
              "ExtractedActivityEntryList")>>,
       <<"InformTheUserAboutTheActivity",
         Node(<<"Inform the user that you've extracted the activity">>, <<>>, None)>>,
       <<"InformTheUserOnlyExistingActivitiesAreSupported",
         Node(<<"Inform the user that you only support listed activities">>, <<>>, None)>>,
       <<"Converse", NodeT(<<"Let the user lead the conversation">>, <<>>, None, "1")>> >>

\* a caller's misconfigured graph: Retry leads back to itself; its end node
\* Stop declares a schema.  Retry configures a temperature of its own
cyclic_flowchart ==
    << <<"Begin", Node(<<"Begin">>, << <<"Proceed", "Retry">> >>, None)>>,
       <<"Retry",
         NodeT(<<"Try again?">>, << <<"No", "Stop">>, <<"Yes", "Retry">> >>, None, "1")>>,
       <<"Stop", Node(<<"Stop">>, <<>>, "ExtractedActivityEntryList")>> >>

\* callers' misconfigured graphs: every node is some connection's target
unrooted_flowchart ==
    << <<"Ping", Node(<<"Ping">>, << <<"default", "Pong">> >>, None)>>,
       <<"Pong", Node(<<"Pong">>, << <<"default", "Ping">> >>, None)>> >>

\* two nodes are the target of no connection
forked_flowchart ==
    << <<"Morning", Node(<<"Wish a good morning">>, << <<"default", "Chat">> >>, None)>>,
       <<"Evening", Node(<<"Is it late?">>,
                         << <<"No", "Chat">>, <<"Yes", "Rest">> >>, None)>>,
       <<"Chat", Node(<<"Chat with the user">>, <<>>, None)>>,
       <<"Rest", Node(<<"Let the user rest">>, <<>>, None)>> >>

\* the "No" connection of Triage names a node that is not declared
dangling_flowchart ==
    << <<"Triage", Node(<<"Does the user need help?">>,
                        << <<"Yes", "Help">>, <<"No", "Goodbye">> >>, None)>>,
       <<"Help", Node(<<"Help the user">>, <<>>, None)>> >>

\* Classify declares a schema and two connections
schema_decision_flowchart ==
    << <<"Classify", Node(<<"Is there an activity to extract?">>,
                          << <<"Yes", "Confirm">>, <<"No", "Skip">> >>,
                          "ExtractedActivityEntryList")>>,
       <<"Confirm", Node(<<"Confirm the activity">>, <<>>, None)>>,
       <<"Skip", Node(<<"Carry on">>, <<>>, None)>> >>

\* the extraction node Listen lies on a cycle, so a run may visit it again
relisten_flowchart ==
    << <<"Open", Node(<<"Open the conversation">>, << <<"default", "Listen">> >>, None)>>,
       <<"Listen",
         Node(<<"Extract the activities the user mentions">>,
              << <<"default", "AnythingElse">> >>, "ExtractedActivityEntryList")>>,
       <<"AnythingElse",
         Node(<<"Did the user mention anything else?">>,
              << <<"No", "Close">>, <<"Yes", "Listen">> >>, None)>>,
       <<"Close", Node(<<"Close the conversation">>, <<>>, None)>> >>

plan_flowchart ==
    << <<"Start", Node(<<"Start the conversation.">>, << <<"default", "ExtractPlanNames">> >>, None)>>,
       <<"ExtractPlanNames",
         Node(<<"Extract all plan names from the users plan list.">>,
              << <<"default", "StartPlanLoop">> >>, "AllPlanNamesSchema")>>,
       <<"StartPlanLoop",
         LoopNode("loop_start", "current_plan", "plan_names",
                  << <<"default", "CheckPlanDiscussed">> >>)>>,
       <<"CheckPlanDiscussed",
         Node(<<"have you asked the user to discuss '", "${current_plan}", "' and user accepted?">>,
              << <<"Yes", "CheckNextWeekPlans">>, <<"No", "AskToDiscussPlan">> >>, None)>>,
       <<"AskToDiscussPlan",
         NodeT(<<"Ask the user if they would like to discuss the plan '", "${current_plan}", "'.">>,
               <<>>, None, "1")>>,
       <<"CheckNextWeekPlans",
         Node(<<"Did the user mention next week's sessions for plan ", "${current_plan}", "'?">>,
              << <<"Yes", "CheckSuggestedChanges">>, <<"No", "AskNextWeekPlans">> >>, None)>>,
       <<"AskNextWeekPlans",
         NodeT(<<"Remind the user of the planned sessions for '", "${current_plan}", "'">>,
               <<>>, None, "1")>>,
       <<"CheckSuggestedChanges",
         Node(<<"do you suggest any change to '", "${current_plan}", "' upcoming week's sessions?">>,
              << <<"Yes", "SuggestedChanges">>, <<"No", "NextPlan">> >>, None)>>,
       <<"SuggestedChanges",
         NodeT(<<"Analyse and suggest changes for plan '", "${current_plan}", "'.">>,
               << <<"default", "InformTheUsreAboutTheChanges">> >>,
               "SuggestedNextWeekSessions", "1")>>,
       <<"InformTheUsreAboutTheChanges",
         Node(<<"Inform the user that you've generated some changes">>, <<>>, None)>>,
       <<"NextPlan",
         LoopNode("loop_continue", None, None,
                  << <<"HasMore", "StartPlanLoop">>, <<"Complete", "Conclude">> >>)>>,
       <<"Conclude",
         NodeT(<<"Wrap up the conversation with a summary">>, <<>>, None, "1")>> >>

\* a caller's misconfigured template: Recap names the loop variable after the
\* loop has completed
stale_placeholder_flowchart ==
    << <<"ListPlans",
         Node(<<"Extract all plan names from the users plan list.">>,
              << <<"default", "EachPlan">> >>, "AllPlanNamesSchema")>>,
       <<"EachPlan",
         LoopNode("loop_start", "current_plan", "plan_names",
                  << <<"default", "CheckPlan">> >>)>>,
       <<"CheckPlan",
         Node(<<"Is the plan '", "${current_plan}", "' on track?">>,
              << <<"Yes", "NextOne">>, <<"No", "Encourage">> >>, None)>>,
       <<"Encourage",
         Node(<<"Encourage the user to keep up with '", "${current_plan}", "'.">>,
              <<>>, None)>>,
       <<"NextOne",
         LoopNode("loop_continue", None, None,
                  << <<"HasMore", "EachPlan">>, <<"Complete", "Recap">> >>)>>,
       <<"Recap", Node(<<"Recap the plan '", "${current_plan}", "'.">>, <<>>, None)>> >>

\* a caller's misconfigured loop: EachName loops over plan_name, a field that
\* is a string when Suggest has extracted it and is missing otherwise
unfed_loop_flowchart ==
    << <<"HasPlans",
         Node(<<"Does the user have a plan?">>,
              << <<"Yes", "Suggest">>, <<"No", "EachName">> >>, None)>>,
       <<"Suggest",
         Node(<<"Suggest sessions for the user's plan.">>,
              << <<"default", "EachName">> >>, "SuggestedNextWeekSessions")>>,
       <<"EachName",
         LoopNode("loop_start", "current_plan", "plan_name",
                  << <<"default", "Discuss">> >>)>>,
       <<"Discuss", Node(<<"Discuss the plan '", "${current_plan}", "'.">>, <<>>, None)>> >>

(***************************************************************************)
(* Values of the language model and of the callers.                        *)
(***************************************************************************)
\* the initial input a host passes to run(): the conversation history of the
\* user it serves, one user per engine instance
InputOf(e) == IF e = "fw1" THEN "history of user A" ELSE "history of user B"

\* decision labels the model may answer; "Maybe" is declared by no node
Labels == {"Yes", "No", "Maybe"}

Reasonings == {"because"}

\* texts the model may answer at a terminal node
Texts == {"text 1", "Jarvis: text 2"}

NoData == [cls |-> None, fields |-> <<>>]

\* instances of a pydantic schema: class name and its fields in declared order
\* the fields a pydantic class declares, in declaration order
SchemaFields(cls) ==
    CASE cls = "ExtractedActivityEntryList" -> <<"activities">>
      [] cls = "ExtractedActivityEntry" -> <<"activity_id", "date", "measure", "quantity">>
      [] cls = "AllPlanNamesSchema" -> <<"plan_names">>
      [] cls = "SuggestedNextWeekSessions" -> <<"plan_name", "next_week_sessions">>
      [] OTHER -> <<>>

\* the field is declared as a List
IsListField(cls, name) ==
    \/ cls = "ExtractedActivityEntryList" /\ name = "activities"
    \/ cls = "AllPlanNamesSchema" /\ name = "plan_names"
    \/ cls = "SuggestedNextWeekSessions" /\ name = "next_week_sessions"

\* the class of the models a list field holds; None for a field of plain values
ItemClass(cls, name) ==
    IF cls = "ExtractedActivityEntryList" /\ name = "activities"
    THEN "ExtractedActivityEntry" ELSE None

\* an activity the model may extract from the user's message
LoggedRun ==
    [cls |-> "ExtractedActivityEntry",
     fields |-> << <<"activity_id", "running">>, <<"date", "2024-05-01">>,
                   <<"measure", "kilometers">>, <<"quantity", 5>> >>]

\* data.dict(): the fields in declaration order, nested models as dicts
RECURSIVE ModelDict(_)
ModelDictReversed(data) ==
    LET names == SchemaFields(data.cls)
        n     == Len(names)
    IN  [i \in 1..n |->
            LET name  == names[n + 1 - i]
                value == DictGet(data.fields, name)
            IN  <<name, IF ItemClass(data.cls, name) # None
                        THEN [j \in 1..Len(value) |-> ModelDict(value[j])]
                        ELSE value>>]

ModelDict(data) ==
    LET names == SchemaFields(data.cls)
    IN  [i \in 1..Len(names) |->
            LET value == DictGet(data.fields, names[i])
            IN  <<names[i], IF ItemClass(data.cls, names[i]) # None
                            THEN [j \in 1..Len(value) |-> ModelDict(value[j])]
                            ELSE value>>]

SchemaValues(schema) ==
    CASE schema = "ExtractedActivityEntryList" ->
            {[cls |-> schema, fields |-> << <<"activities", acts>> >>]
                : acts \in {<<>>, <<LoggedRun>>}}
      [] schema = "AllPlanNamesSchema" ->
            {[cls |-> schema, fields |-> << <<"plan_names", names>> >>]
                : names \in {<<>>, <<"gym">>, <<"gym", "read", "gym">>}}
      [] schema = "SuggestedNextWeekSessions" ->
            {[cls |-> schema,
              fields |-> << <<"plan_name", "gym">>, <<"next_week_sessions", s>> >>]
                : s \in {<<>>, <<"monday">>}}
      [] OTHER -> {}

Answer(kind, decision, reasoning, text, data) ==
    [kind |-> kind, decision |-> decision, reasoning |-> reasoning,
     text |-> text, data |-> data]

\* the language-model call raised
ErrorAnswer == Answer("error", None, None, None, NoData)

\* no call was made at this visit
NoAnswer == Answer("none", None, None, None, NoData)

(***************************************************************************)
(* State.                                                                  *)
(***************************************************************************)
\* engine instances a host may construct (one per Assistant.get_response call)
Engines == {"fw1", "fw2"}

VARIABLES
    framework,        \* which module's FlowchartLLMFramework the host imported
    flowchart,        \* self.flowchart: the module-level dict all engines share
    system_prompt,    \* self.system_prompt
    start_node,       \* self.start_node, per engine
    extracted,        \* self.extracted, per dict object
    visited_nodes,    \* self.visited_nodes, per engine
    decisions,        \* self.decisions, per engine
    reasoning,        \* self.reasoning, per engine
    pc,               \* per engine: "unconstructed" (__init__ raised), "idle",
                      \* "running", "returned", "raised"
    err,              \* per engine: the exception __init__ or run() raised
    current_node_id,  \* local of run()
    context,          \* local of run(): context["initial_input"]
    traversal,        \* local of run(): the trace
    loop_stack,       \* flowchart_framework only: the loop scopes
    result,           \* the first component of run()'s return value
    calls,            \* per engine: the model calls of the current run, in order
    answers,          \* per engine: the model's answers of the current run, in order
    run_count,        \* per engine: run() calls started
    outcomes,         \* per engine: what each finished run() gave its caller
    asked,            \* every <<call, answer>> the model has given so far
    audit,            \* per engine: what the current run has given to
                      \* logger.log("AI_FRAMEWORK", ...)
    memory,           \* per user: the messages of the conversation memory
    now,              \* the time, in minutes
    assistant,        \* Assistant.get_response: where the call stands, its result
    notifications,    \* the notification store, by notification id
    pushes,           \* the push notifications delivered, in order
    response          \* the notifications router: what the last request answered

vars == <<framework, flowchart, system_prompt, start_node, extracted, visited_nodes,
          decisions, reasoning, pc, err, current_node_id, context, traversal,
          loop_stack, result, calls, answers, run_count, outcomes, asked, audit,
          memory, now, assistant, notifications, pushes, response>>

\* the state of the hosts of the engine: the assistant and the routers
host_vars == <<memory, now, assistant, notifications, pushes, response>>

\* the state of the engine instances
engine_vars == <<framework, flowchart, system_prompt, start_node, extracted,
                 visited_nodes, decisions, reasoning, pc, err, current_node_id,
                 context, traversal, loop_stack, result, calls, answers, run_count,
                 outcomes, asked, audit>>

(***************************************************************************)
(* FlowchartLLMFramework.__init__                                          *)
(***************************************************************************)
IsConnectionTarget(fc, node_id) ==
    \E i \in 1..Len(fc) : node_id \in SeqToSet(DictValues(fc[i][2].connections))

\* next(node_id for node_id in flowchart if no node connects to it)
StartNode(fc) ==
    LET free == {i \in 1..Len(fc) : ~IsConnectionTarget(fc, fc[i][1])}
    IN  IF free = {} THEN "StopIteration"
        ELSE fc[CHOOSE i \in free : \A j \in free : i <= j][1]

\* self.extracted = {} : every instance gets a dict object of its own
ExtractedShared(e) == "fw1"

ExtractedOf(e) == e

\* the engine's fields right after __init__
Constructed ==
    [pc |-> "idle", err |-> None, current_node_id |-> None, context |-> None,
     visited_nodes |-> <<>>, decisions |-> <<>>, reasoning |-> <<>>,
     extracted |-> <<>>, traversal |-> <<>>, loop_stack |-> <<>>,
     result |-> NoAnswer, calls |-> <<>>]

\* engine e as one record
View(e) ==
    [pc |-> pc[e], err |-> err[e], current_node_id |-> current_node_id[e],
     context |-> context[e], visited_nodes |-> visited_nodes[e],
     decisions |-> decisions[e], reasoning |-> reasoning[e],
     extracted |-> extracted[ExtractedOf(e)], traversal |-> traversal[e],
     loop_stack |-> loop_stack[e], result |-> result[e], calls |-> calls[e]]

(***************************************************************************)
(* FlowchartLLMFramework.llm_function and run of ai/assistant/flowchart.py *)
(***************************************************************************)
\* one entry "\n\nContext: {model_name}: {data_dict}" per item of self.extracted,
\* appended to the node's text
NodePrompt(node, extracted_map) ==
    [text |-> node.text,
     context |-> [i \in 1..Len(extracted_map) |->
                    [model_name |-> extracted_map[i][2].cls,
                     data_dict |-> ModelDict(extracted_map[i][2])]]]

\* f"<focus>'{node_text}'</focus>\n Context\n{context['initial_input']}\n"
FullPrompt(node_text, initial_input) ==
    [focus |-> node_text, initial_input |-> initial_input]

\* which branch of llm_function a call takes
LlmModeTextOnly(options, schema) == "text"

LlmMode(options, schema) ==
    IF options # <<>>
    THEN IF schema # None THEN "ValueError" ELSE "decision"
    ELSE IF schema # None THEN "schema" ELSE "text"

\* node.get("temperature", 0.7)
DefaultTemperature == "0.7"

Temperature(node) ==
    IF node.temperature # None THEN node.temperature ELSE DefaultTemperature

\* the temperature keyword of the call: only ask_text is given one
PassedTemperature(mode, temperature) ==
    IF mode = "text" THEN temperature ELSE None

\* what ask_schema / ask_text receives, with the node and the visit it is made at
LlmCall(node_id, visit, mode, full_prompt, options, schema, temperature) ==
    [node |-> node_id, visit |-> visit, text |-> full_prompt, system |-> system_prompt,
     pymodel |-> IF mode = "decision" THEN "DecisionSchema"
                 ELSE IF mode = "schema" THEN schema ELSE "ask_text",
     options |-> IF mode = "decision" THEN options ELSE <<>>,
     temperature |-> temperature]

\* what the model may give back for a call in this mode
Responses(mode, schema) ==
    CASE mode = "decision" ->
            {Answer("decision", l, r, None, NoData) : l \in Labels, r \in Reasonings}
            \cup {ErrorAnswer}
      [] mode = "schema" ->
            {Answer("schema", None, None, None, d) : d \in SchemaValues(schema)}
            \cup {ErrorAnswer}
      [] mode = "text" ->
            {Answer("text", None, None, t, NoData) : t \in Texts} \cup {ErrorAnswer}
      [] OTHER -> {NoAnswer}

\* node_entry, as built at the top of each pass of the loop of run()
NodeEntryAnonymous(node_id, text, options) ==
    [node |-> None, text |-> text, options |-> options, reasoning |-> None,
     decision |-> None, next_node |-> None, extracted |-> <<>>]

NodeEntryNextSelf(node_id, text, options) ==
    [node |-> node_id, text |-> text, options |-> options, reasoning |-> None,
     decision |-> None, next_node |-> node_id, extracted |-> <<>>]

NodeEntry(node_id, text, options) ==
    [node |-> node_id, text |-> text, options |-> options, reasoning |-> None,
     decision |-> None, next_node |-> None, extracted |-> <<>>]

\* connections.get(decision, list(connections.values())[0])
ResolveDecisionFirstOnly(connections, decision) == connections[1][2]

ResolveDecisionYesFallback(connections, decision) ==
    IF DictHas(connections, decision) THEN DictGet(connections, decision)
    ELSE IF DictHas(connections, "Yes") THEN DictGet(connections, "Yes")
    ELSE connections[1][2]

ResolveDecisionLastFallback(connections, decision) ==
    IF DictHas(connections, decision) THEN DictGet(connections, decision)
    ELSE connections[Len(connections)][2]

ResolveDecision(connections, decision) ==
    IF DictHas(connections, decision) THEN DictGet(connections, decision)
    ELSE connections[1][2]

\* next_node = list(connections.values())[0] : the one connection's target
SoleTargetByDefaultLabel(connections) ==
    IF DictHas(connections, "default") THEN DictGet(connections, "default") ELSE None

SoleTarget(connections) == connections[1][2]

\* node_entry["decision"] = decision : the label the model gave, as given
RecordedDecisionTaken(connections, decision) ==
    IF DictHas(connections, decision) THEN decision ELSE connections[1][1]

RecordedDecision(connections, decision) == decision

\* current_node_id = next_node
AdvanceRestarts(current, next_node) == StartNode(flowchart)

AdvanceStays(current, next_node) == current

Advance(current, next_node) == next_node

\* the kind of visit the node gets in run(): "end", "decision" or "transition"
NodeKind(node) ==
    IF node.connections = <<>> THEN "end"
    ELSE IF Len(node.connections) > 1 THEN "decision" ELSE "transition"

\* the llm_function call a visit of the node makes, "none" if it makes none
CallModeSilentEnd(node) ==
    CASE NodeKind(node) = "end" -> "none"
      [] NodeKind(node) = "decision" -> LlmMode(DictKeys(node.connections), None)
      [] OTHER -> IF node.schema # None THEN LlmMode(<<>>, node.schema) ELSE "none"

CallMode(node) ==
    CASE NodeKind(node) = "end" -> LlmMode(<<>>, node.schema)
      [] NodeKind(node) = "decision" -> LlmMode(DictKeys(node.connections), None)
      [] OTHER -> IF node.schema # None THEN LlmMode(<<>>, node.schema) ELSE "none"

\* an exception leaves run(): the locals are gone, the engine's fields stay
RaiseSwallowed(st, exception) == [st EXCEPT !.err = exception]

Raise(st, exception) == [st EXCEPT !.pc = "raised", !.err = exception]

\* one pass of the while loop of run(), the model answering ans
VisitNode(st, ans) ==
    LET id      == st.current_node_id
        node    == DictGet(flowchart, id)
        mode    == CallMode(node)
        prompt  == NodePrompt(node, st.extracted)
        entry   == NodeEntry(id, node.text, DictKeys(node.connections))
        call    == LlmCall(id, Len(st.visited_nodes) + 1, mode,
                           FullPrompt(prompt, st.context),
                           DictKeys(node.connections), node.schema,
                           PassedTemperature(mode, Temperature(node)))
        s1      == [st EXCEPT !.visited_nodes = Append(@, id),
                              !.calls = IF mode \in {"none", "ValueError"} THEN @
                                        ELSE Append(@, call)]
    IN  IF ~DictHas(flowchart, id) THEN Raise(st, "KeyError")
        ELSE IF mode = "ValueError" THEN Raise(s1, "ValueError")
        ELSE IF ans.kind = "error" THEN Raise(s1, "LanguageModelError")
        ELSE CASE NodeKind(node) = "end" ->
                    [s1 EXCEPT !.traversal = Append(@, entry),
                               !.result = ans,
                               !.pc = "returned"]
               [] NodeKind(node) = "decision" ->
                    LET next_node == ResolveDecision(node.connections, ans.decision)
                    IN  [s1 EXCEPT
                           !.decisions = DictSet(@, id, ans.decision),
                           !.reasoning = DictSet(@, id, ans.reasoning),
                           !.traversal = Append(@,
                               [entry EXCEPT
                                  !.decision = RecordedDecision(node.connections,
                                                                ans.decision),
                                  !.reasoning = ans.reasoning,
                                  !.next_node = next_node]),
                           !.current_node_id = Advance(id, next_node)]
               [] OTHER ->
                    LET next_node == SoleTarget(node.connections)
                    IN  [s1 EXCEPT
                           !.extracted = IF node.schema # None
                                         THEN DictSet(@, id, ans.data) ELSE @,
                           !.traversal = Append(@,
                               [entry EXCEPT !.next_node = next_node,
                                             !.extracted = IF node.schema # None
                                                           THEN <<ModelDict(ans.data)>>
                                                           ELSE <<>>]),
                           !.current_node_id = Advance(id, next_node)]

\* the first lines of run(): visited_nodes and decisions are reset,
\* extracted and reasoning are not
RunStart(st, start, input_string) ==
    [st EXCEPT !.pc = "running", !.err = None,
               !.current_node_id = start,
               !.context = input_string,
               !.visited_nodes = <<>>,
               !.decisions = <<>>,
               !.traversal = <<>>,
               !.result = NoAnswer,
               !.calls = <<>>]

(***************************************************************************)
(* FlowchartLLMFramework of ai/assistant/flowchart_framework.py, the       *)
(* engine week_analyser.py runs its loop flowchart on.  Modelled from the  *)
(* specification (sections 3, 4.2, 4.3, 7): fresh traversal context per    *)
(* run, ${name} templates, loop nodes, step cap.                           *)
(***************************************************************************)
\* the loop variable a "${name}" token names; None for literal text
PlaceholderName(token) ==
    CASE token = "${current_plan}" -> "current_plan"
      [] OTHER -> None

\* the innermost loop scope binding name: <<value>>, or <<>> when unbound
LoopBindingFirstElement(stack, name) ==
    LET scopes == {i \in 1..Len(stack) :
                     /\ stack[i].iteratorName = name
                     /\ stack[i].index < Len(stack[i].collection)}
    IN  IF scopes = {} THEN <<>>
        ELSE LET i == CHOOSE k \in scopes : \A j \in scopes : j <= k
             IN  <<stack[i].collection[1]>>

LoopBinding(stack, name) ==
    LET scopes == {i \in 1..Len(stack) :
                     /\ stack[i].iteratorName = name
                     /\ stack[i].index < Len(stack[i].collection)}
    IN  IF scopes = {} THEN <<>>
        ELSE LET i == CHOOSE k \in scopes : \A j \in scopes : j <= k
             IN  <<stack[i].collection[stack[i].index + 1]>>

\* a template all of whose placeholders are bound
Renderable(text, stack) ==
    \A i \in 1..Len(text) :
        PlaceholderName(text[i]) # None =>
            LoopBinding(stack, PlaceholderName(text[i])) # <<>>

\* promptTemplate with every ${name} replaced by its innermost binding
RenderTemplateLiteral(text, stack) == text

RenderTemplate(text, stack) ==
    [i \in 1..Len(text) |->
        IF PlaceholderName(text[i]) # None
        THEN LoopBinding(stack, PlaceholderName(text[i]))[1]
        ELSE text[i]]

\* the context block: <nodeId>: <schemaName>: {field: value, ...}
FrameworkPrompt(node, stack, extracted_map) ==
    [text |-> RenderTemplate(node.text, stack),
     context |-> [i \in 1..Len(extracted_map) |->
                    [node_id |-> extracted_map[i][1],
                     schema_name |-> extracted_map[i][2].cls,
                     fields |-> ModelDict(extracted_map[i][2])]]]

\* the sequence extracted under field_name by a prior node: <<sequence>>, or
\* <<>> when no prior node extracted the field or its value is no sequence
ResolveCollectionOrEmpty(extracted_map, field_name) ==
    LET has == {i \in 1..Len(extracted_map) :
                  /\ DictHas(extracted_map[i][2].fields, field_name)
                  /\ IsListField(extracted_map[i][2].cls, field_name)}
    IN  IF has = {} THEN << <<>> >>
        ELSE LET i == CHOOSE k \in has : \A j \in has : j <= k
             IN  <<DictGet(extracted_map[i][2].fields, field_name)>>

ResolveCollection(extracted_map, field_name) ==
    LET has == {i \in 1..Len(extracted_map) :
                  DictHas(extracted_map[i][2].fields, field_name)}
    IN  IF has = {} THEN <<>>
        ELSE LET i == CHOOSE k \in has : \A j \in has : j <= k
             IN  IF IsListField(extracted_map[i][2].cls, field_name)
                 THEN <<DictGet(extracted_map[i][2].fields, field_name)>>
                 ELSE <<>>

\* the "Complete" target of the LoopContinue node paired with a LoopStart
CompleteTarget(fc, loop_start_id) ==
    LET pair == {i \in 1..Len(fc) :
                   /\ fc[i][2].type = "loop_continue"
                   /\ DictHas(fc[i][2].connections, "HasMore")
                   /\ DictGet(fc[i][2].connections, "HasMore") = loop_start_id
                   /\ DictHas(fc[i][2].connections, "Complete")}
    IN  IF pair = {} THEN None
        ELSE DictGet(fc[CHOOSE i \in pair : TRUE][2].connections, "Complete")

\* where a LoopStart visit that pushed its scope goes: into the loop body,
\* or past the loop when the collection is empty
LoopEntryTargetNoSkip(fc, loop_start_id, collection) ==
    DictGet(fc, loop_start_id).connections[1][2]

LoopEntryTarget(fc, loop_start_id, collection) ==
    IF collection = <<>> THEN CompleteTarget(fc, loop_start_id)
    ELSE DictGet(fc, loop_start_id).connections[1][2]

\* the dispatch of a visit
FrameworkKind(st) ==
    LET node == DictGet(flowchart, st.current_node_id)
    IN  IF Len(st.visited_nodes) >= StepCap THEN "cap"
        ELSE IF node.type = "loop_start" THEN "loop_start"
        ELSE IF node.type = "loop_continue" THEN "loop_continue"
        ELSE NodeKind(node)

FrameworkCallMode(st) ==
    LET node == DictGet(flowchart, st.current_node_id)
    IN  IF FrameworkKind(st) \in {"cap", "loop_start", "loop_continue"} THEN "none"
        ELSE IF ~Renderable(node.text, st.loop_stack) THEN "none"
        ELSE CallMode(node)

\* a failed run discards its traversal context
FrameworkRaise(st, exception) ==
    [st EXCEPT !.pc = "raised", !.err = exception, !.extracted = <<>>,
               !.decisions = <<>>, !.reasoning = <<>>, !.loop_stack = <<>>]

\* LoopStart: push the scope on first entry; skip an empty collection
VisitLoopStart(st) ==
    LET id    == st.current_node_id
        node  == DictGet(flowchart, id)
        stack == st.loop_stack
        again == stack # <<>> /\ stack[Len(stack)].iteratorName = node.iterator
        found == ResolveCollection(st.extracted, node.collection)
        entry == NodeEntry(id, <<>>, DictKeys(node.connections))
        s1    == [st EXCEPT !.visited_nodes = Append(@, id)]
    IN  IF again
        THEN [s1 EXCEPT
                !.traversal = Append(@, [entry EXCEPT !.next_node = node.connections[1][2]]),
                !.current_node_id = node.connections[1][2]]
        ELSE IF found = <<>> THEN FrameworkRaise(s1, "ConfigurationError")
        ELSE LET scope == [iteratorName |-> node.iterator,
                           collection |-> found[1], index |-> 0]
                 next_node == LoopEntryTarget(flowchart, id, found[1])
             IN  [s1 EXCEPT
                    !.loop_stack = Append(@, scope),
                    !.traversal = Append(@, [entry EXCEPT !.next_node = next_node]),
                    !.current_node_id = next_node]

\* after the increment the scope's index is still inside its collection
HasMoreOffByOne(scope) == scope.index < Len(scope.collection)

HasMore(scope) == scope.index + 1 < Len(scope.collection)

\* LoopContinue: next element via "HasMore", or pop the scope via "Complete"
VisitLoopContinue(st) ==
    LET id    == st.current_node_id
        node  == DictGet(flowchart, id)
        stack == st.loop_stack
        entry == NodeEntry(id, <<>>, DictKeys(node.connections))
        s1    == [st EXCEPT !.visited_nodes = Append(@, id)]
    IN  IF stack = <<>> THEN FrameworkRaise(s1, "ConfigurationError")
        ELSE LET top  == stack[Len(stack)]
                 more == HasMore(top)
                 next_node == IF more THEN DictGet(node.connections, "HasMore")
                              ELSE DictGet(node.connections, "Complete")
             IN  [s1 EXCEPT
                    !.loop_stack = IF more
                                   THEN [@ EXCEPT ![Len(stack)].index = top.index + 1]
                                   ELSE SubSeq(@, 1, Len(stack) - 1),
                    !.traversal = Append(@, [entry EXCEPT !.next_node = next_node]),
                    !.current_node_id = next_node]

\* one step of the state machine of section 4.3, the model answering ans
FrameworkVisitNode(st, ans) ==
    LET id     == st.current_node_id
        node   == DictGet(flowchart, id)
        kind   == FrameworkKind(st)
        mode   == FrameworkCallMode(st)
        prompt == FrameworkPrompt(node, st.loop_stack, st.extracted)
        entry  == NodeEntry(id, prompt.text, DictKeys(node.connections))
        call   == LlmCall(id, Len(st.visited_nodes) + 1, mode,
                          FullPrompt(prompt, st.context),
                          DictKeys(node.connections), node.schema,
                          Temperature(node))
        s1     == [st EXCEPT !.visited_nodes = Append(@, id),
                             !.calls = IF mode = "none" THEN @ ELSE Append(@, call)]
    IN  CASE kind = "cap" -> FrameworkRaise(st, "ConfigurationError")
          [] kind = "loop_start" -> VisitLoopStart(st)
          [] kind = "loop_continue" -> VisitLoopContinue(st)
          [] ~Renderable(node.text, st.loop_stack) ->
                FrameworkRaise(s1, "ConfigurationError")
          [] ans.kind = "error" -> FrameworkRaise(s1, "LanguageModelError")
          [] kind = "end" ->
                [s1 EXCEPT !.traversal = Append(@, entry),
                           !.result = ans,
                           !.pc = "returned"]
          [] kind = "decision" ->
                LET next_node == ResolveDecision(node.connections, ans.decision)
                IN  [s1 EXCEPT
                       !.decisions = DictSet(@, id, ans.decision),
                       !.reasoning = DictSet(@, id, ans.reasoning),
                       !.traversal = Append(@,
                           [entry EXCEPT !.decision = ans.decision,
                                         !.reasoning = ans.reasoning,
                                         !.next_node = next_node]),
                       !.current_node_id = next_node]
          [] OTHER ->
                LET next_node == node.connections[1][2]
                IN  [s1 EXCEPT
                       !.extracted = IF node.schema # None
                                     THEN DictSet(@, id, ans.data) ELSE @,
                       !.traversal = Append(@,
                           [entry EXCEPT !.next_node = next_node,
                                         !.extracted = IF node.schema # None
                                                       THEN <<ModelDict(ans.data)>>
                                                       ELSE <<>>]),
                       !.current_node_id = next_node]

\* TraversalContext: created at run start, never shared across runs
FrameworkRunStart(st, start, input_string) ==
    [Constructed EXCEPT !.pc = "running",
                        !.current_node_id = start,
                        !.context = input_string]

(***************************************************************************)
(* The state machine.                                                      *)
(***************************************************************************)
\* flowcharts run on the engine of flowchart.py
Flowcharts == {first_message_flowchart, every_message_flowchart, cyclic_flowchart}

\* flowcharts the specification's load-time validation is to reject
MisconfiguredFlowcharts ==
    {unrooted_flowchart, forked_flowchart, dangling_flowchart,
     schema_decision_flowchart, relisten_flowchart}

\* flowcharts run on the engine of flowchart_framework.py
FrameworkFlowcharts ==
    {plan_flowchart, cyclic_flowchart, stale_placeholder_flowchart, unfed_loop_flowchart}

InitEngine(fw, fc) ==
    /\ framework = fw
    /\ flowchart = fc
    /\ start_node = [e \in Engines |-> StartNode(fc)]
    /\ system_prompt = "You are Jarvis"
    /\ extracted = [e \in Engines |-> <<>>]
    /\ visited_nodes = [e \in Engines |-> <<>>]
    /\ decisions = [e \in Engines |-> <<>>]
    /\ reasoning = [e \in Engines |-> <<>>]
    /\ pc = [e \in Engines |->
                IF StartNode(fc) = "StopIteration" THEN "unconstructed" ELSE "idle"]
    /\ err = [e \in Engines |->
                IF StartNode(fc) = "StopIteration" THEN "StopIteration" ELSE None]
    /\ current_node_id = [e \in Engines |-> None]
    /\ context = [e \in Engines |-> None]
    /\ traversal = [e \in Engines |-> <<>>]
    /\ loop_stack = [e \in Engines |-> <<>>]
    /\ result = [e \in Engines |-> NoAnswer]
    /\ calls = [e \in Engines |-> <<>>]
    /\ answers = [e \in Engines |-> <<>>]
    /\ run_count = [e \in Engines |-> 0]
    /\ outcomes = [e \in Engines |-> <<>>]
    /\ asked = {}
    /\ audit = [e \in Engines |-> <<>>]

\* the users of the application
Users == {"alice", "bob"}

\* the ids a notification may have
NotificationIds == {"n1", "n2"}

\* no notification is stored under the id
NoNotification == [user_id |-> None, status |-> None, message |-> None]

\* no request has been answered
NoResponse ==
    [route |-> None, status |-> None, user |-> None, asked |-> None,
     returned |-> <<>>, opened |-> <<>>]

\* no get_response call has been made
IdleAssistant ==
    [pc |-> "idle", before |-> <<>>, log |-> <<>>, result |-> None,
     activities |-> <<>>]

\* the hosts before any request: nothing stored, nothing sent
HostIdle ==
    /\ memory = [u \in Users |-> <<>>]
    /\ now = 0
    /\ assistant = IdleAssistant
    /\ notifications = [n \in NotificationIds |-> NoNotification]
    /\ pushes = <<>>
    /\ response = NoResponse

Init == HostIdle /\ \E fc \in Flowcharts : InitEngine("flowchart", fc)

\* the engine of flowchart.py constructed over a caller's misconfigured graph
LoadInit == HostIdle /\ \E fc \in MisconfiguredFlowcharts : InitEngine("flowchart", fc)

FrameworkInit ==
    HostIdle /\ \E fc \in FrameworkFlowcharts : InitEngine("flowchart_framework", fc)

\* what ask_schema / ask_text is given: the prompt, the system prompt, the model
CallKey(call) ==
    [text |-> call.text, system |-> call.system, pymodel |-> call.pymodel,
     options |-> call.options, temperature |-> call.temperature]

\* what a run that has come to t has handed to logger.log("AI_FRAMEWORK", ...):
\* run() logs the input and the traversal in its end-node branch, right before
\* it returns, and nowhere else
AuditRecords(t) ==
    IF t.pc = "returned" \/ (framework # "flowchart" /\ t.pc = "raised")
    THEN <<[input |-> t.context, traversal |-> t.traversal]>>
    ELSE <<>>

\* the engine's fields and run()'s locals become t
Commit(e, t) ==
    /\ pc' = [pc EXCEPT ![e] = t.pc]
    /\ err' = [err EXCEPT ![e] = t.err]
    /\ current_node_id' = [current_node_id EXCEPT ![e] = t.current_node_id]
    /\ context' = [context EXCEPT ![e] = t.context]
    /\ visited_nodes' = [visited_nodes EXCEPT ![e] = t.visited_nodes]
    /\ decisions' = [decisions EXCEPT ![e] = t.decisions]
    /\ reasoning' = [reasoning EXCEPT ![e] = t.reasoning]
    /\ extracted' = [extracted EXCEPT ![ExtractedOf(e)] = t.extracted]
    /\ traversal' = [traversal EXCEPT ![e] = t.traversal]
    /\ loop_stack' = [loop_stack EXCEPT ![e] = t.loop_stack]
    /\ result' = [result EXCEPT ![e] = t.result]
    /\ calls' = [calls EXCEPT ![e] = t.calls]
    /\ outcomes' = IF t.pc \in {"returned", "raised"}
                   THEN [outcomes EXCEPT ![e] =
                           Append(@, [status |-> t.pc, input |-> t.context,
                                      result |-> t.result,
                                      extracted |-> IF t.pc = "returned"
                                                    THEN t.extracted ELSE <<>>])]
                   ELSE outcomes
    /\ audit' = [audit EXCEPT ![e] = AuditRecords(t)]

\* The hosts explored.  An Assistant constructs an engine per call and runs
\* it once, so a second instance "fw2" runs once, while or after the first
\* one runs; the first instance "fw1" may also be run again, up to MaxRuns
\* times, when it is the only one.  The loop engine is run once.
MayRun(e) ==
    IF e = "fw1"
    THEN /\ run_count["fw2"] = 0
         /\ run_count["fw1"] < (IF framework = "flowchart" THEN MaxRuns ELSE 1)
    ELSE /\ framework = "flowchart"
         /\ run_count["fw1"] = 1
         /\ run_count["fw2"] = 0

\* run() and llm_function read self.flowchart, self.system_prompt and
\* self.start_node and assign none of them
ConfigurationKeptButStart ==
    /\ UNCHANGED <<flowchart, system_prompt>>
    /\ start_node' = [e \in Engines |->
                        IF pc'[e] = "running" THEN current_node_id'[e]
                        ELSE start_node[e]]

ConfigurationKept == UNCHANGED <<flowchart, system_prompt, start_node>>

\* run(input_string) is called on engine e
Run(e) ==
    /\ pc[e] \notin {"unconstructed", "running"}
    /\ MayRun(e)
    /\ LET input_string == InputOf(e)
       IN  Commit(e, IF framework = "flowchart"
                     THEN RunStart(View(e), start_node[e], input_string)
                     ELSE FrameworkRunStart(View(e), start_node[e], input_string))
    /\ run_count' = [run_count EXCEPT ![e] = @ + 1]
    /\ answers' = [answers EXCEPT ![e] = <<>>]
    /\ ConfigurationKept
    /\ UNCHANGED <<framework, asked>>
    /\ UNCHANGED host_vars

CurrentNode(e) == DictGet(flowchart, current_node_id[e])

KindAt(e) ==
    IF ~DictHas(flowchart, current_node_id[e]) THEN "KeyError"
    ELSE IF framework = "flowchart" THEN NodeKind(CurrentNode(e))
    ELSE FrameworkKind(View(e))

ModeAt(e) ==
    IF framework = "flowchart" THEN CallMode(CurrentNode(e))
    ELSE FrameworkCallMode(View(e))

PromptAt(e) ==
    IF framework = "flowchart"
    THEN NodePrompt(CurrentNode(e), extracted[ExtractedOf(e)])
    ELSE FrameworkPrompt(CurrentNode(e), loop_stack[e], extracted[ExtractedOf(e)])

TemperatureAt(e) ==
    IF framework = "flowchart"
    THEN PassedTemperature(ModeAt(e), Temperature(CurrentNode(e)))
    ELSE Temperature(CurrentNode(e))

CallAt(e) ==
    LlmCall(current_node_id[e], Len(visited_nodes[e]) + 1, ModeAt(e),
            FullPrompt(PromptAt(e), context[e]),
            DictKeys(CurrentNode(e).connections), CurrentNode(e).schema,
            TemperatureAt(e))

Step(st, ans) ==
    IF framework = "flowchart" THEN VisitNode(st, ans)
    ELSE FrameworkVisitNode(st, ans)

\* engine e visits its current node: one pass of the loop of run(), with the
\* model call it makes and the answer the model gives
Visit(e) ==
    /\ pc[e] = "running"
    /\ framework = "flowchart" => Len(visited_nodes[e]) < MaxVisits
    /\ \E ans \in Responses(ModeAt(e), CurrentNode(e).schema) :
          /\ Commit(e, Step(View(e), ans))
          /\ answers' = [answers EXCEPT ![e] = Append(@, ans)]
          /\ asked' = IF ModeAt(e) \in {"none", "ValueError"} THEN asked
                      ELSE asked \cup {<<CallKey(CallAt(e)), ans>>}
    /\ ConfigurationKept
    /\ UNCHANGED <<framework, run_count>>
    /\ UNCHANGED host_vars

EndNode(e) ==
    /\ pc[e] = "running" /\ KindAt(e) = "end"
    /\ Visit(e)

DecisionNode(e) ==
    /\ pc[e] = "running" /\ KindAt(e) = "decision"
    /\ Visit(e)

TransitionNode(e) ==
    /\ pc[e] = "running" /\ KindAt(e) = "transition"
    /\ Visit(e)

LoopStart(e) ==
    /\ pc[e] = "running" /\ KindAt(e) = "loop_start"
    /\ Visit(e)

LoopContinue(e) ==
    /\ pc[e] = "running" /\ KindAt(e) = "loop_continue"
    /\ Visit(e)

StepCapExceeded(e) ==
    /\ pc[e] = "running" /\ KindAt(e) = "cap"
    /\ Visit(e)

\* self.flowchart[current_node_id] finds no such node: KeyError leaves run()
MissingNode(e) ==
    /\ pc[e] = "running" /\ KindAt(e) = "KeyError"
    /\ Commit(e, Step(View(e), NoAnswer))
    /\ ConfigurationKept
    /\ UNCHANGED <<framework, run_count, answers, asked>>
    /\ UNCHANGED host_vars

\* the engine of flowchart.py
Next ==
    \E e \in Engines :
        \/ Run(e)
        \/ EndNode(e)
        \/ DecisionNode(e)
        \/ TransitionNode(e)

Spec == Init /\ [][Next]_vars

\* the engine of flowchart.py over the misconfigured graphs
LoadNext ==
    \E e \in Engines :
        \/ Run(e)
        \/ EndNode(e)
        \/ DecisionNode(e)
        \/ TransitionNode(e)
        \/ MissingNode(e)

LoadSpec == LoadInit /\ [][LoadNext]_vars

\* the engine of flowchart_framework.py
FrameworkNext ==
    \E e \in Engines :
        \/ Run(e)
        \/ EndNode(e)
        \/ DecisionNode(e)
        \/ TransitionNode(e)
        \/ LoopStart(e)
        \/ LoopContinue(e)
        \/ StepCapExceeded(e)

FrameworkSpec == FrameworkInit /\ [][FrameworkNext]_vars

(***************************************************************************)
(* Assistant.get_response of ai/assistant/flowchart.py.  The conversation  *)
(* memory (ai.assistant.memory) is a collaborator outside this code: a     *)
(* write appends a message stamped with the time, read_all gives the       *)
(* messages younger than max_age_in_minutes.                               *)
(***************************************************************************)
\* the most get_response calls explored
MaxCalls == 2

\* max_age_in_minutes=1440 of the read that picks the flowchart
DayInMinutes == 1440

\* max_age_in_minutes=3*60 of the conversation history put in the prompt
HistoryMinutes == 180

\* the minutes that may pass before a message comes in
Delays == {1, 2000}

\* the user the assistant was constructed for
AssistantUser == "alice"

\* Message.new(text, sender_name, sender_id, recipient_name, recipient_id)
Message(text, sender, recipient, at) ==
    [text |-> text, sender |-> sender, recipient |-> recipient, at |-> at]

\* memory.read_all(max_age_in_minutes=...)
ReadAll(messages, at, max_age_in_minutes) ==
    LET Young(m) == at - m.at < max_age_in_minutes
    IN  SelectSeq(messages, Young)

\* memory.write(message)
Write(messages, message) == Append(messages, message)

\* len(self.memory.read_all(max_words=1000, max_age_in_minutes=1440)) == 0
IsFirstMessageInMoreThanADay(messages, at) ==
    Len(ReadAll(messages, at, DayInMinutes)) = 0

\* the memory the choice of the flowchart looks at: the read comes before the
\* write of the incoming message
MemoryAtChoiceAfterWrite(before, after) == after

MemoryAtChoice(before, after) == before

\* if is_first_message_in_more_than_a_day: ... else: ...
ChooseFlowchart(is_first_message_in_more_than_a_day) ==
    IF is_first_message_in_more_than_a_day THEN first_message_flowchart
    ELSE every_message_flowchart

\* the input string of framework.run: the conversation history of the last
\* three hours is part of it
RunInput(messages, at) ==
    LET history == ReadAll(messages, at, HistoryMinutes)
    IN  [history |-> [i \in 1..Len(history) |-> history[i].text]]

\* the reply without a leading "Jarvis (...):" or "Jarvis:"; what follows the
\* colon stays as it is after the second form, blank included
StripPrefix(text) ==
    CASE text = "Jarvis (today): text 2" -> "text 2"
      [] text = "Jarvis: text 2" -> " text 2"
      [] OTHER -> text

\* extracted["ExtractActivity"].activities if "ExtractActivity" in extracted else []
ReturnedActivities(extracted_map) ==
    IF DictHas(extracted_map, "ExtractActivity")
    THEN DictGet(DictGet(extracted_map, "ExtractActivity").fields, "activities")
    ELSE <<>>

\* the memory once the reply has been written
ReplyWrittenNever(messages, text, at) == messages

ReplyWritten(messages, text, at) ==
    Write(messages, Message(StripPrefix(text), "Jarvis", AssistantUser, at))

\* a FlowchartLLMFramework as __init__ leaves it
NewEngine ==
    [pc |-> "idle", err |-> None, current_node_id |-> None, context |-> None,
     visited_nodes |-> <<>>, decisions |-> <<>>, reasoning |-> <<>>,
     extracted |-> <<>>, traversal |-> <<>>, loop_stack |-> <<>>,
     result |-> NoAnswer, calls |-> <<>>]

\* before the first call: the memory is empty or holds one earlier message;
\* the engine's fields are placeholders, get_response constructs its own
AssistantInit ==
    /\ InitEngine("flowchart", first_message_flowchart)
    /\ memory \in {[u \in Users |-> <<>>],
                   [u \in Users |->
                      IF u = AssistantUser
                      THEN <<Message("see you", "Jarvis", AssistantUser, 0)>>
                      ELSE <<>>]}
    /\ now = 0
    /\ assistant = IdleAssistant
    /\ notifications = [n \in NotificationIds |-> NoNotification]
    /\ pushes = <<>>
    /\ response = NoResponse

\* get_response(user_input, ...) is called, delay minutes after the last
\* event: it reads the memory, writes the user's message, picks the flowchart,
\* constructs an engine over it and enters run()
GetResponse(e, delay) ==
    /\ assistant.pc # "running"
    /\ Len(assistant.log) < MaxCalls
    /\ LET at       == now + delay
           before   == memory[AssistantUser]
           after    == Write(before, Message("hello", AssistantUser, "Jarvis", at))
           is_first == IsFirstMessageInMoreThanADay(MemoryAtChoice(before, after), at)
           chosen   == ChooseFlowchart(is_first)
       IN  /\ now' = at
           /\ memory' = [memory EXCEPT ![AssistantUser] = after]
           /\ flowchart' = chosen
           /\ start_node' = [start_node EXCEPT ![e] = StartNode(chosen)]
           /\ Commit(e, RunStart(NewEngine, StartNode(chosen), RunInput(after, at)))
           /\ assistant' = [pc |-> "running", before |-> before,
                            log |-> Append(assistant.log,
                                           [at |-> at, first |-> is_first,
                                            flowchart |-> chosen]),
                            result |-> None, activities |-> <<>>]
    /\ run_count' = [run_count EXCEPT ![e] = @ + 1]
    /\ answers' = [answers EXCEPT ![e] = <<>>]
    /\ asked' = {}
    /\ UNCHANGED <<framework, system_prompt, notifications, pushes, response>>

\* run() has returned: the prefix is stripped, the reply is written to the
\* memory, and get_response returns the reply and the extracted activities
Reply(e) ==
    /\ assistant.pc = "running"
    /\ pc[e] = "returned"
    /\ memory' = [memory EXCEPT
                    ![AssistantUser] = ReplyWritten(@, result[e].text, now)]
    /\ assistant' = [assistant EXCEPT
                       !.pc = "returned",
                       !.result = StripPrefix(result[e].text),
                       !.activities = ReturnedActivities(extracted[ExtractedOf(e)])]
    /\ UNCHANGED engine_vars
    /\ UNCHANGED <<now, notifications, pushes, response>>

\* run() has raised: the exception leaves get_response as well
Propagate(e) ==
    /\ assistant.pc = "running"
    /\ pc[e] = "raised"
    /\ assistant' = [assistant EXCEPT !.pc = "raised"]
    /\ UNCHANGED engine_vars
    /\ UNCHANGED <<memory, now, notifications, pushes, response>>

\* the engine instance get_response holds in its local `framework`
AssistantEngine == "fw1"

\* the assistant of flowchart.py
AssistantNext ==
    \/ \E delay \in Delays : GetResponse(AssistantEngine, delay)
    \/ EndNode(AssistantEngine)
    \/ DecisionNode(AssistantEngine)
    \/ TransitionNode(AssistantEngine)
    \/ Reply(AssistantEngine)
    \/ Propagate(AssistantEngine)

AssistantSpec == AssistantInit /\ [][AssistantNext]_vars

(***************************************************************************)
(* The notification routes of routers/notifications.py.  The notification  *)
(* manager (services.notification_manager), the users gateway and the      *)
(* push service are collaborators outside this code: a notification is     *)
(* created "pending", process_notification turns a pending one into        *)
(* "processed" or gives nothing, mark_as_opened and conclude_notification  *)
(* set the status "opened" and "concluded".                                *)
(***************************************************************************)
Notification(user_id, status, message) ==
    [user_id |-> user_id, status |-> status, message |-> message]

\* notification_manager.get_notification(notification_id)
GetNotification(store, id) ==
    IF id \in DOMAIN store THEN store[id] ELSE NoNotification

\* notification_manager.get_all_for_user(user_id), as <<id, notification>> pairs
GetAllForUser(store, user_id) ==
    LET stored == <<[id |-> "n1", notification |-> store["n1"]],
                    [id |-> "n2", notification |-> store["n2"]]>>
        Owned(n) == n.notification.user_id = user_id
    IN  SelectSeq(stored, Owned)

\* notification_manager.mark_as_opened(notification_id)
MarkAsOpened(store, id) == [store EXCEPT ![id].status = "opened"]

\* notification_manager.conclude_notification(notification_id)
Conclude(store, id) == [store EXCEPT ![id].status = "concluded"]

\* what a call of notification_manager.send_push_notification may come to.  The
\* route calls it without await, and trigger_push_notification awaits the same
\* method: when it is a coroutine function the call only makes a coroutine
\* object, nothing is sent and nothing is raised
PushOutcomes == {"sent", "raised", "never awaited"}

\* the answer of a route
Response(route, status, user, id, returned, opened) ==
    [route |-> route, status |-> status, user |-> user, asked |-> id,
     returned |-> returned, opened |-> opened]

\* POST /initiate-recurrent-checkin: a notification is created for the user
InitiateRecurrentCheckin(user) ==
    /\ \E id \in NotificationIds :
          /\ notifications[id] = NoNotification
          /\ notifications' = [notifications EXCEPT
                                 ![id] = Notification(user, "pending", "")]
          /\ response' = Response("initiate-recurrent-checkin", 200, user, id,
                                  <<>>, <<>>)
    /\ UNCHANGED engine_vars
    /\ UNCHANGED <<memory, now, assistant, pushes>>

\* POST /process-scheduled-notification with notification_id id in its body
\* (None: the body has none)
ProcessScheduledNotification(id, processes, push) ==
    LET route == "process-scheduled-notification"
        found == GetNotification(notifications, id)
    IN  /\ IF id = None
           THEN /\ response' = Response(route, 400, None, id, <<>>, <<>>)
                /\ UNCHANGED <<notifications, pushes, memory>>
           ELSE IF ~(processes /\ found.status = "pending")
           THEN /\ response' = Response(route, 204, None, id, <<>>, <<>>)
                /\ UNCHANGED <<notifications, pushes, memory>>
           ELSE LET processed == [found EXCEPT !.status = "processed",
                                               !.message = "time to check in"]
                    user      == processed.user_id
                IN  /\ notifications' = [notifications EXCEPT ![id] = processed]
                    /\ pushes' = IF push = "sent"
                                 THEN Append(pushes, [user |-> user,
                                                      notification |-> id])
                                 ELSE pushes
                    /\ IF push = "raised"
                       THEN /\ response' = Response(route, 500, user, id, <<>>, <<>>)
                            /\ UNCHANGED memory
                       ELSE /\ memory' = [memory EXCEPT
                                            ![user] = Write(@, Message(processed.message,
                                                                       "Jarvis", user, now))]
                            /\ response' = Response(route, 200, user, id, <<>>, <<>>)
        /\ UNCHANGED engine_vars
        /\ UNCHANGED <<now, assistant>>

\* the answer of mark_notification_opened: 404 for none, 403 for another user's
MarkOpenedStatusUnchecked(notification, user) ==
    IF notification = NoNotification THEN 404 ELSE 200

MarkOpenedStatus(notification, user) ==
    IF notification = NoNotification THEN 404
    ELSE IF notification.user_id # user THEN 403
    ELSE 200

\* POST /mark-notification-opened?notification_id=id by the authenticated user
MarkNotificationOpened(id, user) ==
    LET status == MarkOpenedStatus(GetNotification(notifications, id), user)
    IN  /\ notifications' = IF status = 200 THEN MarkAsOpened(notifications, id)
                            ELSE notifications
        /\ response' = Response("mark-notification-opened", status, user, id, <<>>,
                                IF status = 200 THEN <<id>> ELSE <<>>)
        /\ UNCHANGED engine_vars
        /\ UNCHANGED <<memory, now, assistant, pushes>>

\* the answer of conclude_notification: 404 for none and for another user's
ConcludeStatus(notification, user) ==
    IF notification = NoNotification \/ notification.user_id # user THEN 404
    ELSE 200

\* POST /conclude-notification/{id} by the authenticated user
ConcludeNotification(id, user) ==
    LET status == ConcludeStatus(GetNotification(notifications, id), user)
    IN  /\ notifications' = IF status = 200 THEN Conclude(notifications, id)
                            ELSE notifications
        /\ response' = Response("conclude-notification", status, user, id, <<>>, <<>>)
        /\ UNCHANGED engine_vars
        /\ UNCHANGED <<memory, now, assistant, pushes>>

\* [n for n in ... if n.status != "concluded"]
Loaded(all) ==
    LET Open(n) == n.notification.status # "concluded"
    IN  SelectSeq(all, Open)

\* if notification.status == "processed": mark_as_opened(notification.id)
ToOpenNone(loaded) == <<>>

ToOpen(loaded) ==
    LET Processed(n) == n.notification.status = "processed"
        chosen == SelectSeq(loaded, Processed)
    IN  [i \in 1..Len(chosen) |-> chosen[i].id]

RECURSIVE MarkAllOpened(_, _)
MarkAllOpened(store, ids) ==
    IF ids = <<>> THEN store
    ELSE MarkAllOpened(MarkAsOpened(store, Head(ids)), Tail(ids))

\* GET /load-notifications by the authenticated user
LoadNotifications(user) ==
    LET loaded == Loaded(GetAllForUser(notifications, user))
        opened == ToOpen(loaded)
    IN  /\ notifications' = MarkAllOpened(notifications, opened)
        /\ response' = Response("load-notifications", 200, user, None, loaded, opened)
        /\ UNCHANGED engine_vars
        /\ UNCHANGED <<memory, now, assistant, pushes>>

NotificationInit ==
    /\ InitEngine("flowchart", first_message_flowchart)
    /\ HostIdle

\* the routes of routers/notifications.py
NotificationNext ==
    \/ \E user \in Users : InitiateRecurrentCheckin(user)
    \/ \E id \in NotificationIds \cup {None}, processes \in BOOLEAN,
          push \in PushOutcomes : ProcessScheduledNotification(id, processes, push)
    \/ \E id \in NotificationIds, user \in Users : MarkNotificationOpened(id, user)
    \/ \E id \in NotificationIds, user \in Users : ConcludeNotification(id, user)
    \/ \E user \in Users : LoadNotifications(user)

NotificationSpec == NotificationInit /\ [][NotificationNext]_vars

(***************************************************************************)
(* Graph notions used by the properties.                                   *)
(***************************************************************************)
NodeIds(fc) == SeqToSet(DictKeys(fc))

\* the targets a visit of node id may advance to; the "HasMore" edge of a
\* LoopContinue node is the one legal back edge and is left out when asked
Successors(fc, id, with_back_edges) ==
    LET node == DictGet(fc, id)
    IN  {node.connections[i][2] : i \in
            {j \in 1..Len(node.connections) :
                with_back_edges \/ ~(node.type = "loop_continue"
                                     /\ node.connections[j][1] = "HasMore")}}

RECURSIVE Closure(_, _, _)
Closure(fc, seen, with_back_edges) ==
    LET more == UNION {Successors(fc, id, with_back_edges) : id \in seen \cap NodeIds(fc)}
    IN  IF more \subseteq seen THEN seen
        ELSE Closure(fc, seen \cup more, with_back_edges)

\* the nodes a run standing at id may still visit, id included
ReachableFrom(fc, id) == Closure(fc, {id}, TRUE)

\* section 3: one start node, no dangling target, no cycle but through a loop pair
WellFormed(fc) ==
    /\ Cardinality({id \in NodeIds(fc) : ~IsConnectionTarget(fc, id)}) = 1
    /\ \A id \in NodeIds(fc) : Successors(fc, id, TRUE) \subseteq NodeIds(fc)
    /\ \A id \in NodeIds(fc) :
          id \notin Closure(fc, Successors(fc, id, FALSE), FALSE)

WellFormedFlowcharts == {fc \in Flowcharts : WellFormed(fc)}

\* the visits of the current run whose model call was answered (visit k of a
\* run consumes answers[e][k])
VisitsOf(e) == 1..Len(answers[e])

VisitedNode(e, k) == DictGet(flowchart, visited_nodes[e][k])

\* visit k was a decision visit and the model answered it with a label
DecisionVisit(e, k) ==
    /\ answers[e][k].kind = "decision"
    /\ Len(VisitedNode(e, k).connections) > 1

\* after visit k the run stands at node id
StandsAt(e, k, id) ==
    /\ k <= Len(traversal[e])
    /\ traversal[e][k].next_node = id
    /\ IF k < Len(visited_nodes[e]) THEN visited_nodes[e][k + 1] = id
       ELSE pc[e] = "running" /\ current_node_id[e] = id

(***************************************************************************)
(* C1.  For a well-formed flowchart and any model responses, run() ends:   *)
(* it returns at a node with no connections or raises ConfigurationError   *)
(* or LanguageModelError, and no run goes on visiting nodes forever: a run *)
(* over a graph without loop nodes visits no node twice (so it makes at    *)
(* most as many visits as there are nodes), and while it has not ended it  *)
(* stands at a declared node, whose visit the loop of run() makes next.    *)
(***************************************************************************)
EndsProperly(e) ==
    /\ pc[e] = "returned" =>
          /\ visited_nodes[e] # <<>>
          /\ VisitedNode(e, Len(visited_nodes[e])).connections = <<>>
    /\ pc[e] = "raised" => err[e] \in {"ConfigurationError", "LanguageModelError"}

C2_VisitCapEnforced ==
    \A e \in Engines : Len(visited_nodes[e]) < MaxVisits

(***************************************************************************)
(* C3.  Decision routing: when the model answers a decision node with a    *)
(* declared label L, the next node visited is connections[L], and no model *)
(* call is made later in the run for a node that can only be reached       *)
(* through the other labels.                                               *)
(***************************************************************************)
OnlyThroughOthers(fc, node, label) ==
    (UNION {ReachableFrom(fc, node.connections[i][2]) :
                i \in {j \in 1..Len(node.connections) : node.connections[j][1] # label}})
    \ ReachableFrom(fc, DictGet(node.connections, label))

\* OnlyThroughOthers of every decision node and label of the flowcharts
Avoided ==
    [fc \in Flowcharts |->
        [id \in {n \in NodeIds(fc) : Len(DictGet(fc, n).connections) > 1} |->
            [label \in SeqToSet(DictKeys(DictGet(fc, id).connections)) |->
                OnlyThroughOthers(fc, DictGet(fc, id), label)]]]

C3_DecisionRouting ==
    \A e \in Engines : \A k \in VisitsOf(e) :
        (DecisionVisit(e, k)
         /\ DictHas(VisitedNode(e, k).connections, answers[e][k].decision)) =>
            /\ StandsAt(e, k, DictGet(VisitedNode(e, k).connections, answers[e][k].decision))
            /\ \A c \in 1..Len(calls[e]) :
                  calls[e][c].visit > k =>
                     calls[e][c].node \notin
                        Avoided[flowchart][visited_nodes[e][k]][answers[e][k].decision]

C3_Witness ==
    \E e \in Engines :
        /\ flowchart = first_message_flowchart
        /\ pc[e] = "returned"
        /\ answers[e][1].decision = "No"
        /\ visited_nodes[e] = <<"FirstTimeEver", "FirstTimeToday", "Greet">>
        /\ Len(calls[e]) = 3

(***************************************************************************)
(* C4.  Decision fallback: when the model answers a decision node with a   *)
(* label that no connection declares, the run does not fail and goes on at *)
(* the target of the first declared connection.                            *)
(***************************************************************************)
C4_DecisionFallback ==
    \A e \in Engines : \A k \in VisitsOf(e) :
        (DecisionVisit(e, k)
         /\ ~DictHas(VisitedNode(e, k).connections, answers[e][k].decision)) =>
            StandsAt(e, k, VisitedNode(e, k).connections[1][2])

C4_Witness ==
    \E e \in Engines :
        /\ flowchart = every_message_flowchart
        /\ Len(answers[e]) >= 4
        /\ answers[e][3].decision = "Maybe"
        /\ visited_nodes[e][3] = "CheckActivityMeasurement"
        /\ visited_nodes[e][4] = "AskForMoreInformation"

(***************************************************************************)
(* Loop notions used by the properties.                                    *)
(***************************************************************************)
LoopStartIds(fc) == {id \in NodeIds(fc) : DictGet(fc, id).type = "loop_start"}

RECURSIVE BodyClosure(_, _)
BodyClosure(fc, seen) ==
    LET more == UNION {Successors(fc, id, TRUE) :
                         id \in {n \in seen : DictGet(fc, n).type # "loop_continue"}}
    IN  IF more \subseteq seen THEN seen ELSE BodyClosure(fc, seen \cup more)

\* the nodes of the loop a LoopStart node opens, its LoopContinue node included
LoopBody(fc, loop_start_id) ==
    BodyClosure(fc, {DictGet(fc, loop_start_id).connections[1][2]})

\* the sequence the run extracted under the LoopStart node's collection field,
\* as the trace records it: <<sequence>>, or <<>> if none was extracted
ExtractedCollection(e, loop_start_id) ==
    LET field == DictGet(flowchart, loop_start_id).collection
        has   == {i \in 1..Len(traversal[e]) :
                    /\ traversal[e][i].extracted # <<>>
                    /\ DictHas(traversal[e][i].extracted[1], field)}
    IN  IF has = {} THEN <<>>
        ELSE <<DictGet(traversal[e][CHOOSE i \in has : \A j \in has : i <= j].extracted[1],
                       field)>>

\* the template with the placeholder of the iterator replaced by value
Substituted(text, iterator, value) ==
    [i \in 1..Len(text) |->
        IF PlaceholderName(text[i]) = iterator THEN value ELSE text[i]]

\* the pass of the loop that trace entry i belongs to: how many of the first i
\* trace entries are visits of the LoopStart node
PassOf(e, loop_start_id, i) ==
    Cardinality({j \in 1..i : traversal[e][j].node = loop_start_id})

\* the loop opened by the LoopStart node has run through all its passes
LoopCompleted(e, loop_start_id) ==
    \E i \in 1..Len(traversal[e]) :
        /\ DictGet(flowchart, traversal[e][i].node).type = "loop_continue"
        /\ traversal[e][i].node \in LoopBody(flowchart, loop_start_id)
        /\ traversal[e][i].next_node = CompleteTarget(flowchart, loop_start_id)

(***************************************************************************)
(* C5.  Loop iteration: with a LoopStart node bound to an extracted        *)
(* sequence of n >= 1 elements, the prompt rendered at a loop-body node in *)
(* pass k has the iterator placeholder replaced by element k of the        *)
(* sequence (in the trace and in the model call), and once the loop has    *)
(* completed every body node on the path taken is in the trace exactly n   *)
(* times.                                                                  *)
(***************************************************************************)
C5_LoopIteration ==
    \A e \in Engines : \A s \in LoopStartIds(flowchart) :
        LET c    == ExtractedCollection(e, s)
            body == LoopBody(flowchart, s)
            iter == DictGet(flowchart, s).iterator
        IN  (c # <<>> /\ Len(c[1]) >= 1) =>
              /\ \A i \in 1..Len(traversal[e]) :
                    (traversal[e][i].node \in body
                     /\ DictGet(flowchart, traversal[e][i].node).type = None) =>
                        /\ PassOf(e, s, i) <= Len(c[1])
                        /\ traversal[e][i].text =
                              Substituted(DictGet(flowchart, traversal[e][i].node).text,
                                          iter, c[1][PassOf(e, s, i)])
                        /\ \A k \in 1..Len(calls[e]) :
                              calls[e][k].visit = i =>
                                 calls[e][k].text.focus.text = traversal[e][i].text
              /\ LoopCompleted(e, s) =>
                    \A b \in body :
                        LET n == Cardinality({i \in 1..Len(traversal[e]) :
                                                 traversal[e][i].node = b})
                        IN  n = 0 \/ n = Len(c[1])

C5_Witness ==
    \E e \in Engines :
        /\ flowchart = plan_flowchart
        /\ pc[e] = "returned"
        /\ ExtractedCollection(e, "StartPlanLoop") = << <<"gym", "read", "gym">> >>
        /\ LoopCompleted(e, "StartPlanLoop")
        /\ Cardinality({i \in 1..Len(traversal[e]) :
                           traversal[e][i].node = "CheckNextWeekPlans"}) = 3

(***************************************************************************)
(* C6.  Empty-loop skip: with a LoopStart node bound to an extracted empty *)
(* sequence, the visit of the LoopStart node makes no model call and goes  *)
(* on at the "Complete" target of the paired LoopContinue node, and no     *)
(* loop-body node is visited or asked about.                               *)
(***************************************************************************)
C6_EmptyLoopSkip ==
    \A e \in Engines : \A s \in LoopStartIds(flowchart) :
        \A i \in 1..Len(traversal[e]) :
            (traversal[e][i].node = s
             /\ ExtractedCollection(e, s) = << <<>> >>) =>
                /\ StandsAt(e, i, CompleteTarget(flowchart, s))
                /\ \A j \in 1..Len(visited_nodes[e]) :
                      visited_nodes[e][j] \notin LoopBody(flowchart, s)
                /\ \A k \in 1..Len(calls[e]) :
                      /\ calls[e][k].node \notin LoopBody(flowchart, s)
                      /\ calls[e][k].visit # i

C6_Witness ==
    \E e \in Engines :
        /\ flowchart = plan_flowchart
        /\ pc[e] = "returned"
        /\ ExtractedCollection(e, "StartPlanLoop") = << <<>> >>
        /\ visited_nodes[e] = <<"Start", "ExtractPlanNames", "StartPlanLoop", "Conclude">>

(***************************************************************************)
(* Runs and their callers.                                                 *)
(***************************************************************************)
\* the model behaved as a deterministic stub: one answer per call it was given
DeterministicStub ==
    \A p, q \in asked : p[1] = q[1] => p[2] = q[2]

\* the trace entries of the current run at which a structured value was stored
ExtractedInRun(e) ==
    {i \in 1..Len(traversal[e]) : traversal[e][i].extracted # <<>>}

\* run() has just been entered: no node has been visited yet
RunBegins(e) == pc[e] = "running" /\ answers[e] = <<>>

RECURSIVE Replay(_, _, _)
Replay(st, given, k) ==
    IF k > Len(given) THEN st ELSE Replay(Step(st, given[k]), given, k + 1)

\* what engine e's run comes to when it is the only run there is: a newly
\* constructed engine, run() on the same input, the model giving the same answers
RunsAlone(e) ==
    Replay(RunStart(Constructed, StartNode(flowchart), InputOf(e)), answers[e], 1)

(***************************************************************************)
(* C7.  Determinism: with a deterministic model stub and identical initial *)
(* input, two runs over the same flowchart return the same final text and  *)
(* the same extracted map, also when both are made on one engine instance. *)
(***************************************************************************)
C7_Determinism ==
    DeterministicStub =>
        \A e, f \in Engines :
            \A i \in 1..Len(outcomes[e]) : \A j \in 1..Len(outcomes[f]) :
                (/\ outcomes[e][i].status = "returned"
                 /\ outcomes[f][j].status = "returned"
                 /\ outcomes[e][i].input = outcomes[f][j].input) =>
                    /\ outcomes[e][i].result = outcomes[f][j].result
                    /\ outcomes[e][i].extracted = outcomes[f][j].extracted

(***************************************************************************)
(* C8.  All-or-nothing failure: when run() raises after an extraction node *)
(* of that run has succeeded, the engine's extracted map keeps none of the *)
(* entries the failed run wrote.                                           *)
(***************************************************************************)
C8_AllOrNothing ==
    \A e \in Engines :
        pc[e] = "raised" =>
            \A i \in ExtractedInRun(e) :
                ~DictHas(extracted[ExtractedOf(e)], traversal[e][i].node)

(***************************************************************************)
(* C9.  Fresh traversal context: when run() begins, the extracted map, the *)
(* decisions map, the reasoning map and the visited list are all empty.    *)
(***************************************************************************)
C9_FreshContext ==
    \A e \in Engines :
        RunBegins(e) =>
            /\ extracted[ExtractedOf(e)] = <<>>
            /\ decisions[e] = <<>>
            /\ reasoning[e] = <<>>
            /\ visited_nodes[e] = <<>>

(***************************************************************************)
(* C10.  Independent runs: when the runs of two engine instances over the  *)
(* same flowchart are interleaved visit by visit, each run's visited       *)
(* nodes, decisions, reasoning, trace, model calls, result and extracted   *)
(* map are what the run comes to alone, and no step writes the flowchart.  *)
(***************************************************************************)
C10_IndependentRuns ==
    /\ [](\A e \in Engines : run_count[e] = 1 => View(e) = RunsAlone(e))
    /\ [][flowchart' = flowchart]_vars

C10_Witness ==
    /\ flowchart = every_message_flowchart
    /\ pc["fw1"] = "returned" /\ pc["fw2"] = "running"
    /\ extracted["fw1"] # <<>>
    /\ extracted["fw2"] # <<>>
    /\ extracted["fw1"] # extracted["fw2"]
    /\ calls["fw1"][1].visit = 1 /\ Len(calls["fw2"]) = 4

(***************************************************************************)
(* Load-time validation.                                                   *)
(***************************************************************************)
\* the node ids that are the target of no connection
StartCandidates(fc) == {id \in NodeIds(fc) : ~IsConnectionTarget(fc, id)}

\* the connection targets that are no declared node id
DanglingTargets(fc) ==
    UNION {SeqToSet(DictValues(fc[i][2].connections)) : i \in 1..Len(fc)}
        \ NodeIds(fc)

\* the nodes declaring both a schema and more than one connection
SchemaDecisionNodes(fc) ==
    {id \in NodeIds(fc) :
        /\ DictGet(fc, id).schema # None
        /\ Len(DictGet(fc, id).connections) > 1}

\* construction of engine e failed
ConstructionFailed(e) == pc[e] = "unconstructed" /\ err[e] # None

(***************************************************************************)
(* C11.  Start-node resolution: construction selects as start node the     *)
(* one node id that is the target of no connection, and fails when there   *)
(* is no such id or more than one (whatever the exception is called).      *)
(***************************************************************************)
C11_StartNodeResolution ==
    \A e \in Engines :
        IF Cardinality(StartCandidates(flowchart)) = 1
        THEN ~ConstructionFailed(e) /\ start_node[e] \in StartCandidates(flowchart)
        ELSE ConstructionFailed(e)

(***************************************************************************)
(* C12.  Dangling targets are rejected at load time: over a flowchart in   *)
(* which some connection target is no declared node id, construction       *)
(* fails, so no node is ever visited and no model call is ever made.       *)
(***************************************************************************)
C12_DanglingTargetsRejected ==
    DanglingTargets(flowchart) # {} =>
        \A e \in Engines :
            \/ ConstructionFailed(e)
            \/ visited_nodes[e] = <<>> /\ calls[e] = <<>> /\ asked = {}

(***************************************************************************)
(* C13.  A node declaring both a schema and more than one connection is    *)
(* rejected: construction over such a flowchart fails, and no run visits   *)
(* such a node as a plain decision, its schema ignored.                    *)
(***************************************************************************)
C13_SchemaDecisionRejected ==
    \A e \in Engines :
        /\ SchemaDecisionNodes(flowchart) # {} => pc[e] \in {"unconstructed", "idle"}
        /\ \A i \in 1..Len(traversal[e]) :
              ~(/\ traversal[e][i].node \in SchemaDecisionNodes(flowchart)
                /\ traversal[e][i].decision # None)

(***************************************************************************)
(* Prompt templates.                                                       *)
(***************************************************************************)
\* the text holds a "${name}" token
HasPlaceholder(text) == \E i \in 1..Len(text) : PlaceholderName(text[i]) # None

\* the sequences a loop of the flowchart may bind its variable name to
BoundValues(e, name) ==
    UNION {SeqToSet(ExtractedCollection(e, s)[1]) :
             s \in {l \in LoopStartIds(flowchart) :
                      /\ DictGet(flowchart, l).iterator = name
                      /\ ExtractedCollection(e, l) # <<>>}}

(***************************************************************************)
(* C14.  No prompt sent to the model holds a literal ${name} placeholder:  *)
(* the prompt of every model call is the node's template with each ${name} *)
(* token replaced by an element of the sequence a loop binds name to, and  *)
(* a visit of a node whose template has a token with no binding makes no   *)
(* model call and ends the run with a ConfigurationError.                  *)
(***************************************************************************)
C14_NoLiteralPlaceholder ==
    \A e \in Engines :
        /\ \A k \in 1..Len(calls[e]) :
              LET sent     == calls[e][k].text.focus.text
                  template == DictGet(flowchart, calls[e][k].node).text
              IN  /\ ~HasPlaceholder(sent)
                  /\ Len(sent) = Len(template)
                  /\ \A i \in 1..Len(template) :
                        IF PlaceholderName(template[i]) = None
                        THEN sent[i] = template[i]
                        ELSE sent[i] \in BoundValues(e, PlaceholderName(template[i]))
        /\ \A v \in 1..Len(visited_nodes[e]) :
              LET node == DictGet(flowchart, visited_nodes[e][v])
              IN  (/\ HasPlaceholder(node.text)
                   /\ CallMode(node) # "none"
                   /\ \A k \in 1..Len(calls[e]) : calls[e][k].visit # v) =>
                      /\ v = Len(visited_nodes[e])
                      /\ pc[e] = "raised"
                      /\ err[e] = "ConfigurationError"

C14_Witness ==
    \E e \in Engines :
        /\ flowchart = stale_placeholder_flowchart
        /\ pc[e] = "raised" /\ err[e] = "ConfigurationError"
        /\ visited_nodes[e][Len(visited_nodes[e])] = "Recap"
        /\ \E k \in 1..Len(calls[e]) :
              calls[e][k].text.focus.text = <<"Is the plan '", "read", "' on track?">>

(***************************************************************************)
(* Model calls.                                                            *)
(***************************************************************************)
\* the visits of the current run at which the model call failed
FailedVisits(e) == {k \in VisitsOf(e) : answers[e][k].kind = "error"}

(***************************************************************************)
(* C15.  A failed model call aborts the run: the error leaves run(), the   *)
(* failed visit is the last one, and the call is not made again; every     *)
(* node visit makes at most one model call.                                *)
(***************************************************************************)
C15_FailedCallAborts ==
    \A e \in Engines :
        /\ \A k \in FailedVisits(e) :
              /\ pc[e] = "raised"
              /\ err[e] = "LanguageModelError"
              /\ k = Len(visited_nodes[e])
              /\ calls[e][Len(calls[e])].visit = k
              /\ outcomes[e][Len(outcomes[e])].status = "raised"
        /\ \A i, j \in 1..Len(calls[e]) :
              calls[e][i].visit = calls[e][j].visit => i = j
        /\ \A i \in 1..Len(calls[e]) :
              /\ calls[e][i].visit \in 1..Len(visited_nodes[e])
              /\ calls[e][i].node = visited_nodes[e][calls[e][i].visit]

C15_Witness ==
    \E e \in Engines :
        /\ flowchart = every_message_flowchart
        /\ FailedVisits(e) = {4}
        /\ visited_nodes[e][4] = "ExtractActivity"
        /\ Len(calls[e]) = 4
        /\ pc[e] = "raised"

(***************************************************************************)
(* The trace.                                                              *)
(***************************************************************************)
\* the node ids of the trace entries, in order
TraceNodes(e) == [i \in 1..Len(traversal[e]) |-> traversal[e][i].node]

IsPrefix(s, t) == Len(s) <= Len(t) /\ SubSeq(t, 1, Len(s)) = s

(***************************************************************************)
(* C16.  Trace/visit correspondence: while a run goes on and when it has   *)
(* returned, the node ids of the trace entries are the visited nodes, one  *)
(* entry per visit in visit order; within a run every step keeps the       *)
(* entries appended so far as they are.                                    *)
(***************************************************************************)
C16_TraceFollowsVisits ==
    /\ [](\A e \in Engines :
             pc[e] \in {"running", "returned"} => TraceNodes(e) = visited_nodes[e])
    /\ [][\A e \in Engines :
             run_count'[e] = run_count[e] => IsPrefix(traversal[e], traversal'[e])]_vars

C16_Witness ==
    \E e \in Engines :
        /\ pc[e] = "returned"
        /\ TraceNodes(e) = <<"ActivityScanner", "CheckActivityQualifies",
                             "CheckActivityMeasurement", "ExtractActivity",
                             "InformTheUserAboutTheActivity">>
        /\ visited_nodes[e] = TraceNodes(e)

\* the trace entries of decision visits
DecisionEntries(e) ==
    {i \in 1..Len(traversal[e]) : NodeKind(DictGet(flowchart, traversal[e][i].node)) = "decision"}

\* at the decision visit of trace entry i the model's label was no connection
\* label, so the first connection was taken
FallbackTaken(e, i) ==
    ~DictHas(DictGet(flowchart, traversal[e][i].node).connections, answers[e][i].decision)

(***************************************************************************)
(* C17.  A decision-label mismatch shows in the trace: the entry of a      *)
(* decision visit records the node's labels and the label the model gave;  *)
(* the recorded label is none of the recorded labels exactly when the      *)
(* fallback was taken, so such an entry differs from that of a visit where *)
(* the model chose the first label, though both go on at the same node.    *)
(***************************************************************************)
C17_MismatchInTrace ==
    \A e \in Engines : \A i \in DecisionEntries(e) :
        LET entry == traversal[e][i]
            node  == DictGet(flowchart, entry.node)
        IN  /\ entry.options = DictKeys(node.connections)
            /\ entry.decision = answers[e][i].decision
            /\ FallbackTaken(e, i) <=> entry.decision \notin SeqToSet(entry.options)
            /\ FallbackTaken(e, i) =>
                  /\ entry.next_node = node.connections[1][2]
                  /\ entry.decision # entry.options[1]

C17_Witness ==
    \E e \in Engines : \E i, j \in DecisionEntries(e) :
        /\ FallbackTaken(e, i)
        /\ ~FallbackTaken(e, j)
        /\ traversal[e][i].decision = "Maybe"
        /\ traversal[e][j].decision = traversal[e][j].options[1]

(***************************************************************************)
(* C18.  No model call carries both options and a schema: a call with      *)
(* options is a decision call (DecisionSchema, the node's labels), made at *)
(* a node with more than one connection; at any other node the call is a   *)
(* schema call with the node's schema and no options, or a text call with  *)
(* no options when the node declares no schema.                            *)
(***************************************************************************)
C18_CallModeFromNode ==
    \A e \in Engines : \A k \in 1..Len(calls[e]) :
        LET call == calls[e][k]
            node == DictGet(flowchart, visited_nodes[e][call.visit])
        IN  /\ call.options # <<>> => call.pymodel = "DecisionSchema"
            /\ IF Len(node.connections) > 1
               THEN /\ call.options = DictKeys(node.connections)
                    /\ call.pymodel = "DecisionSchema"
               ELSE /\ call.options = <<>>
                    /\ call.pymodel = IF node.schema # None THEN node.schema
                                      ELSE "ask_text"

C18_Witness ==
    \E e \in Engines :
        /\ Len(calls[e]) = 5
        /\ calls[e][3].pymodel = "DecisionSchema" /\ calls[e][3].options = <<"No", "Yes">>
        /\ calls[e][4].pymodel = "ExtractedActivityEntryList" /\ calls[e][4].options = <<>>
        /\ calls[e][5].pymodel = "ask_text" /\ calls[e][5].options = <<>>

(***************************************************************************)
(* The context block of a prompt.                                          *)
(***************************************************************************)
\* the visits of the current run at which a structured value was extracted
ExtractionVisits(e) ==
    {n \in VisitsOf(e) : n <= Len(traversal[e]) /\ answers[e][n].kind = "schema"
                         /\ NodeKind(VisitedNode(e, n)) = "transition"}

\* the dict lists exactly the fields the class declares, in declaration
\* order, each with the value the model instance holds; the items of a list
\* of models likewise
ReproducesFields(dict, data) ==
    /\ DictKeys(dict) = SchemaFields(data.cls)
    /\ \A i \in 1..Len(dict) :
          LET name  == dict[i][1]
              value == DictGet(data.fields, name)
          IN  IF ItemClass(data.cls, name) = None THEN dict[i][2] = value
              ELSE /\ Len(dict[i][2]) = Len(value)
                   /\ \A j \in 1..Len(value) :
                         /\ DictKeys(dict[i][2][j]) = SchemaFields(value[j].cls)
                         /\ \A f \in 1..Len(dict[i][2][j]) :
                               dict[i][2][j][f][2] =
                                   DictGet(value[j].fields, dict[i][2][j][f][1])

(***************************************************************************)
(* C19.  Context round-trip: after a structured value is extracted at node *)
(* N, the prompt of every later model call of the run holds a context      *)
(* entry named after N's schema that lists every field the schema          *)
(* declares, in declaration order, each with its extracted value.          *)
(***************************************************************************)
C19_ContextRoundTrip ==
    \A e \in Engines : \A n \in ExtractionVisits(e) :
        \A k \in 1..Len(calls[e]) :
            calls[e][k].visit > n =>
                \E c \in 1..Len(calls[e][k].text.focus.context) :
                    LET block == calls[e][k].text.focus.context[c]
                    IN  /\ block.model_name = answers[e][n].data.cls
                        /\ block.model_name = VisitedNode(e, n).schema
                        /\ ReproducesFields(block.data_dict, answers[e][n].data)

C19_Witness ==
    \E e \in Engines : \E n \in ExtractionVisits(e) :
        /\ answers[e][n].data.fields = << <<"activities", <<LoggedRun>> >> >>
        /\ \E k \in 1..Len(calls[e]) :
              /\ calls[e][k].visit > n
              /\ calls[e][k].text.focus.context[1].data_dict =
                    << <<"activities",
                         << << <<"activity_id", "running">>, <<"date", "2024-05-01">>,
                               <<"measure", "kilometers">>, <<"quantity", 5>> >> >> >> >>

(***************************************************************************)
(* Terminal nodes.                                                         *)
(***************************************************************************)
\* the visits of the current run that are visits of a node with no connections
TerminalVisits(e) ==
    {v \in 1..Len(visited_nodes[e]) :
        DictGet(flowchart, visited_nodes[e][v]).connections = <<>>}

\* the model calls made at visit v
CallsAt(e, v) == {k \in 1..Len(calls[e]) : calls[e][k].visit = v}

(***************************************************************************)
(* C20.  Terminal dispatch: the visit of a node with no connections makes  *)
(* exactly one model call, a schema call if the node declares a schema and *)
(* a text call otherwise, and is the last visit of the run; unless the     *)
(* call fails, run() returns the call's result with the extracted map, and *)
(* the node's entry is the last of the trace.                              *)
(***************************************************************************)
C20_TerminalDispatch ==
    \A e \in Engines : \A v \in TerminalVisits(e) :
        LET node == DictGet(flowchart, visited_nodes[e][v])
        IN  /\ v = Len(visited_nodes[e])
            /\ pc[e] \in {"returned", "raised"}
            /\ Cardinality(CallsAt(e, v)) = 1
            /\ \A k \in CallsAt(e, v) :
                  /\ calls[e][k].options = <<>>
                  /\ calls[e][k].pymodel =
                        IF node.schema # None THEN node.schema ELSE "ask_text"
            /\ pc[e] = "raised" => answers[e][v].kind = "error"
            /\ pc[e] = "returned" =>
                  /\ result[e] = answers[e][v]
                  /\ result[e].kind = IF node.schema # None THEN "schema" ELSE "text"
                  /\ Len(traversal[e]) = v
                  /\ traversal[e][v].node = visited_nodes[e][v]
                  /\ outcomes[e][Len(outcomes[e])] =
                        [status |-> "returned", input |-> InputOf(e),
                         result |-> answers[e][v],
                         extracted |-> extracted[ExtractedOf(e)]]

C20_Witness ==
    \E e \in Engines :
        /\ flowchart = cyclic_flowchart
        /\ pc[e] = "returned"
        /\ visited_nodes[e] = <<"Begin", "Retry", "Retry", "Stop">>
        /\ result[e].kind = "schema"
        /\ result[e].data.fields = << <<"activities", <<LoggedRun>> >> >>

(***************************************************************************)
(* Nodes with one connection.                                              *)
(***************************************************************************)
\* the visits of the current run, ended by no exception, that are visits of
\* a node with exactly one connection
SingleConnectionVisits(e) ==
    {v \in 1..Len(traversal[e]) : Len(VisitedNode(e, v).connections) = 1}

\* engine e stands at a node with one connection and no schema
AtPlainTransition(e) ==
    /\ pc[e] = "running"
    /\ DictHas(flowchart, current_node_id[e])
    /\ Len(CurrentNode(e).connections) = 1
    /\ CurrentNode(e).schema = None

(***************************************************************************)
(* C21.  Single-connection dispatch: the visit of a node with exactly one  *)
(* connection goes on at that connection's target, whatever its label.  If *)
(* the node declares a schema the visit makes one schema call and the      *)
(* result stands in extracted under the node's id; if it declares none the *)
(* visit makes no model call and leaves extracted as it was.               *)
(***************************************************************************)
C21_SingleConnectionDispatch ==
    /\ [](\A e \in Engines : \A v \in SingleConnectionVisits(e) :
             LET node == VisitedNode(e, v)
             IN  /\ StandsAt(e, v, node.connections[1][2])
                 /\ IF node.schema # None
                    THEN /\ Cardinality(CallsAt(e, v)) = 1
                         /\ \A k \in CallsAt(e, v) :
                               /\ calls[e][k].pymodel = node.schema
                               /\ calls[e][k].options = <<>>
                         /\ DictHas(extracted[ExtractedOf(e)], visited_nodes[e][v])
                         /\ DictGet(extracted[ExtractedOf(e)], visited_nodes[e][v])
                               = answers[e][v].data
                    ELSE CallsAt(e, v) = {})
    /\ [][\A e \in Engines :
             (AtPlainTransition(e) /\ visited_nodes'[e] # visited_nodes[e]) =>
                 /\ extracted' = extracted
                 /\ calls'[e] = calls[e]
                 /\ current_node_id'[e] = CurrentNode(e).connections[1][2]]_vars

C21_Witness ==
    \E e \in Engines :
        /\ flowchart = cyclic_flowchart
        /\ pc[e] = "running"
        /\ visited_nodes[e] = <<"Begin">>
        /\ SingleConnectionVisits(e) = {1}
        /\ DictKeys(VisitedNode(e, 1).connections) = <<"Proceed">>
        /\ calls[e] = <<>>
        /\ current_node_id[e] = "Retry"

(***************************************************************************)
(* Decisions.                                                              *)
(***************************************************************************)
\* trace entry i is the entry of the latest visit of its node in the run
LatestVisit(e, i) ==
    \A j \in 1..Len(traversal[e]) : traversal[e][j].node = traversal[e][i].node => j <= i

(***************************************************************************)
(* C22.  Decision recording: the trace entry of a decision visit carries   *)
(* the label and the reasoning the model returned for that visit and the   *)
(* node the label resolves to, and after the visit decisions[node] and     *)
(* reasoning[node] hold that label and that reasoning (those of the latest *)
(* visit when the node was visited more than once).                        *)
(***************************************************************************)
C22_DecisionRecording ==
    \A e \in Engines : \A i \in DecisionEntries(e) :
        LET entry == traversal[e][i]
            conns == DictGet(flowchart, entry.node).connections
            given == answers[e][i]
        IN  /\ entry.decision = given.decision
            /\ entry.reasoning = given.reasoning
            /\ entry.next_node = IF DictHas(conns, given.decision)
                                 THEN DictGet(conns, given.decision)
                                 ELSE conns[1][2]
            /\ LatestVisit(e, i) =>
                  /\ DictHas(decisions[e], entry.node)
                  /\ DictGet(decisions[e], entry.node) = given.decision
                  /\ DictHas(reasoning[e], entry.node)
                  /\ DictGet(reasoning[e], entry.node) = given.reasoning

C22_Witness ==
    \E e \in Engines :
        /\ flowchart = cyclic_flowchart
        /\ DecisionEntries(e) = {2, 3}
        /\ answers[e][2].decision = "Yes"
        /\ answers[e][3].decision = "No"
        /\ decisions[e] = << <<"Retry", "No">> >>
        /\ reasoning[e] = << <<"Retry", "because">> >>

(***************************************************************************)
(* Loop nodes.                                                             *)
(***************************************************************************)
\* engine e is about to visit a node of this type
AtLoopNode(e, type) == pc[e] = "running" /\ KindAt(e) = type

\* the innermost loop scope of engine e
InnermostScope(e) == loop_stack[e][Len(loop_stack[e])]

(***************************************************************************)
(* C23.  LoopContinue semantics: the visit of a LoopContinue node makes no *)
(* model call and raises the innermost scope's index by one; if the index  *)
(* is then below the collection's length the iterator is bound to the      *)
(* element at that index and the run goes on at the "HasMore" target,      *)
(* otherwise the innermost scope is popped and the run goes on at the      *)
(* "Complete" target.  No model answer enters the routing.                 *)
(***************************************************************************)
C23_LoopContinue ==
    [][\A e \in Engines :
          (/\ AtLoopNode(e, "loop_continue")
           /\ loop_stack[e] # <<>>
           /\ visited_nodes'[e] # visited_nodes[e]) =>
              LET top   == InnermostScope(e)
                  index == top.index + 1
                  conns == CurrentNode(e).connections
              IN  /\ calls'[e] = calls[e]
                  /\ asked' = asked
                  /\ pc'[e] = "running"
                  /\ IF index < Len(top.collection)
                     THEN /\ Len(loop_stack'[e]) = Len(loop_stack[e])
                          /\ loop_stack'[e][Len(loop_stack[e])] =
                                [top EXCEPT !.index = index]
                          /\ LoopBinding(loop_stack'[e], top.iteratorName) =
                                <<top.collection[index + 1]>>
                          /\ current_node_id'[e] = DictGet(conns, "HasMore")
                     ELSE /\ loop_stack'[e] =
                                SubSeq(loop_stack[e], 1, Len(loop_stack[e]) - 1)
                          /\ current_node_id'[e] = DictGet(conns, "Complete")]_vars

C23_Witness ==
    \E e \in Engines :
        /\ flowchart = plan_flowchart
        /\ pc[e] = "running"
        /\ Cardinality({v \in 1..Len(visited_nodes[e]) :
                           visited_nodes[e][v] = "NextPlan"}) = 3
        /\ visited_nodes[e][Len(visited_nodes[e])] = "NextPlan"
        /\ loop_stack[e] = <<>>
        /\ current_node_id[e] = "Conclude"

\* the structured values engine e has extracted that have the field: their
\* positions in the extracted map
ExtractionsWith(e, field_name) ==
    {i \in 1..Len(extracted[ExtractedOf(e)]) :
        DictHas(extracted[ExtractedOf(e)][i][2].fields, field_name)}

\* the visit engine e is about to make enters a loop whose scope is not open
FirstEntry(e) ==
    /\ AtLoopNode(e, "loop_start")
    /\ \/ loop_stack[e] = <<>>
       \/ InnermostScope(e).iteratorName # CurrentNode(e).iterator

(***************************************************************************)
(* C24.  LoopStart entry: on first entry the visit of a LoopStart node     *)
(* makes no model call; when a structured value extracted earlier has the  *)
(* node's collection field and the field is a sequence, the visit pushes   *)
(* the scope {iterator name, that sequence, index 0} and the run goes on;  *)
(* when no extracted value has the field, or the field is no sequence, the *)
(* run ends with a ConfigurationError.                                     *)
(***************************************************************************)
C24_LoopStartEntry ==
    [][\A e \in Engines :
          (FirstEntry(e) /\ visited_nodes'[e] # visited_nodes[e]) =>
              LET field == CurrentNode(e).collection
                  with  == ExtractionsWith(e, field)
                  lists == {i \in with :
                              IsListField(extracted[ExtractedOf(e)][i][2].cls, field)}
              IN  /\ calls'[e] = calls[e]
                  /\ asked' = asked
                  /\ IF with # {} /\ lists = with
                     THEN /\ pc'[e] = "running"
                          /\ Len(loop_stack'[e]) = Len(loop_stack[e]) + 1
                          /\ \E i \in with :
                                loop_stack'[e][Len(loop_stack'[e])] =
                                    [iteratorName |-> CurrentNode(e).iterator,
                                     collection |->
                                        DictGet(extracted[ExtractedOf(e)][i][2].fields, field),
                                     index |-> 0]
                     ELSE /\ pc'[e] = "raised"
                          /\ err'[e] = "ConfigurationError"]_vars

C24_Witness ==
    \E e \in Engines :
        /\ flowchart = unfed_loop_flowchart
        /\ visited_nodes[e] = <<"HasPlans", "Suggest", "EachName">>
        /\ traversal[e][2].extracted[1][1] = <<"plan_name", "gym">>
        /\ pc[e] = "raised"
        /\ err[e] = "ConfigurationError"

(***************************************************************************)
(* The extracted map.                                                      *)
(***************************************************************************)
\* the visits of the current run at which node id extracted a value
ExtractionsAt(e, id) == {n \in ExtractionVisits(e) : visited_nodes[e][n] = id}

(***************************************************************************)
(* C25.  Extraction accumulation: when an extraction node was visited more *)
(* than once in the run, extracted[node] is not just the value of its      *)
(* latest visit: the earlier visits' values are still there.               *)
(***************************************************************************)
C25_ExtractionAccumulates ==
    \A e \in Engines : \A n \in ExtractionVisits(e) :
        LET visits == ExtractionsAt(e, visited_nodes[e][n])
        IN  (Cardinality(visits) > 1 /\ \A m \in visits : m <= n) =>
                DictGet(extracted[ExtractedOf(e)], visited_nodes[e][n])
                    # answers[e][n].data

\* the extraction visits of the current run that came before visit v
ExtractionsBefore(e, v) == {n \in ExtractionVisits(e) : n < v}

(***************************************************************************)
(* C26.  Cumulative context: the prompt of every model call holds exactly  *)
(* one context entry per structured value extracted earlier in the same    *)
(* run, in visit order, each identified by the id of the node that         *)
(* extracted it and by the name of its schema; a call made before any      *)
(* extraction holds none.                                                  *)
(***************************************************************************)
C26_CumulativeContext ==
    \A e \in Engines : \A k \in 1..Len(calls[e]) :
        LET blocks == calls[e][k].text.focus.context
            prior  == ExtractionsBefore(e, calls[e][k].visit)
        IN  /\ Len(blocks) = Cardinality(prior)
            /\ \A c \in 1..Len(blocks) :
                  \E n \in prior :
                      /\ Cardinality({m \in prior : m <= n}) = c
                      /\ "node_id" \in DOMAIN blocks[c]
                      /\ blocks[c].node_id = visited_nodes[e][n]
                      /\ blocks[c].model_name = VisitedNode(e, n).schema

(***************************************************************************)
(* C27.  Per-node temperature: every model call made for a node, whether   *)
(* it asks for text, for a decision or for a structured value, is issued   *)
(* with the temperature the node configures, or with 0.7 when the node     *)
(* configures none.                                                        *)
(***************************************************************************)
C27_PerNodeTemperature ==
    \A e \in Engines : \A k \in 1..Len(calls[e]) :
        calls[e][k].temperature = Temperature(DictGet(flowchart, calls[e][k].node))

(***************************************************************************)
(* C28.  Audit record: no run emits two audit records, and every finished  *)
(* run, one aborted by an error included, has emitted exactly one, which   *)
(* holds the run's initial input and its full ordered trace.               *)
(***************************************************************************)
C28_OneAuditRecordPerRun ==
    \A e \in Engines :
        /\ Len(audit[e]) <= 1
        /\ pc[e] \in {"returned", "raised"} =>
              audit[e] = <<[input |-> outcomes[e][Len(outcomes[e])].input,
                            traversal |-> traversal[e]]>>

(***************************************************************************)
(* C29.  Frame of run(): after any number of runs, whatever the model      *)
(* answered and whether the runs returned or failed, the system prompt and *)
(* every engine's start node are what the constructor set, and no step of  *)
(* a run writes the flowchart definition, the system prompt or a start     *)
(* node.                                                                   *)
(***************************************************************************)
C29_RunLeavesConfiguration ==
    /\ [](/\ system_prompt = "You are Jarvis"
          /\ \A e \in Engines : start_node[e] = StartNode(flowchart))
    /\ [][/\ flowchart' = flowchart
          /\ system_prompt' = system_prompt
          /\ start_node' = start_node]_vars

C29_Witness ==
    \E e \in Engines :
        /\ flowchart = every_message_flowchart
        /\ Len(outcomes[e]) = 2
        /\ outcomes[e][1].status = "raised"
        /\ outcomes[e][2].status = "returned"
        /\ visited_nodes[e] = <<"ActivityScanner", "Converse">>
        /\ start_node[e] = "ActivityScanner"

(***************************************************************************)
(* C30.  The "End" node of first_message_flowchart is never reached: no    *)
(* run over first_message_flowchart, whatever labels the model decides on, *)
(* visits "End" or stands at it.                                           *)
(***************************************************************************)
C30_EndNeverReached ==
    flowchart = first_message_flowchart =>
        \A e \in Engines :
            /\ current_node_id[e] # "End"
            /\ \A v \in 1..Len(visited_nodes[e]) : visited_nodes[e][v] # "End"

(***************************************************************************)
(* Completed runs.                                                         *)
(***************************************************************************)
\* the connection targets of node id
TargetsOf(id) == SeqToSet(DictValues(DictGet(flowchart, id).connections))

(***************************************************************************)
(* C31.  Trace chaining: in every completed run the first trace entry is   *)
(* the start node, each entry but the last names as next_node the node of  *)
(* the entry after it, which is a connection target of its own node, and   *)
(* the last entry is a node with no connections and has no next_node.      *)
(***************************************************************************)
C31_TraceChaining ==
    [](\A e \in Engines :
         pc[e] = "returned" =>
             LET tr == traversal[e]
             IN  /\ Len(tr) >= 1
                 /\ tr[1].node = start_node[e]
                 /\ \A i \in 1..(Len(tr) - 1) :
                       /\ tr[i].next_node = tr[i + 1].node
                       /\ tr[i].next_node \in TargetsOf(tr[i].node)
                 /\ DictGet(flowchart, tr[Len(tr)].node).connections = <<>>
                 /\ tr[Len(tr)].next_node = None)

C31_Witness ==
    \E e \in Engines :
        /\ flowchart = every_message_flowchart
        /\ pc[e] = "returned"
        /\ Len(traversal[e]) = 5
        /\ traversal[e][3].decision = "Yes"
        /\ traversal[e][3].next_node = "ExtractActivity"
        /\ traversal[e][4].next_node = "InformTheUserAboutTheActivity"
        /\ traversal[e][5].next_node = None

(***************************************************************************)
(* C32.  The extracted map a run returns has as keys only nodes that       *)
(* declare a schema, have exactly one connection and were visited in the   *)
(* run; the structured result of an end node that declares a schema is     *)
(* the run's output and is not stored in the map.                          *)
(***************************************************************************)
C32_ExtractedKeys ==
    \A e \in Engines :
        pc[e] = "returned" =>
            LET returned == outcomes[e][Len(outcomes[e])]
                last     == visited_nodes[e][Len(visited_nodes[e])]
            IN  /\ \A i \in 1..Len(returned.extracted) :
                      LET key == returned.extracted[i][1]
                      IN  /\ DictGet(flowchart, key).schema # None
                          /\ Len(DictGet(flowchart, key).connections) = 1
                          /\ key \in SeqToSet(visited_nodes[e])
                /\ DictGet(flowchart, last).schema # None =>
                      /\ returned.result.kind = "schema"
                      /\ ~DictHas(returned.extracted, last)

\* the number of nodes on the longest path of each shipped chart
VisitBound(fc) == IF fc = first_message_flowchart THEN 3 ELSE 5

(***************************************************************************)
(* C33.  Over the two shipped charts every run ends, whatever labels the   *)
(* model gives, declared or not: a run over first_message_flowchart makes  *)
(* at most 3 node visits and one over every_message_flowchart at most 5,   *)
(* a run that has made that many has ended, a run that has not ended       *)
(* stands at a declared node, and no visit makes more than one model call. *)
(***************************************************************************)
C33_ShippedChartsBounded ==
    [](\A e \in Engines :
         flowchart \in {first_message_flowchart, every_message_flowchart} =>
             /\ Len(visited_nodes[e]) <= VisitBound(flowchart)
             /\ Len(visited_nodes[e]) = VisitBound(flowchart) => pc[e] # "running"
             /\ pc[e] = "running" => current_node_id[e] \in NodeIds(flowchart)
             /\ \A v \in 1..Len(visited_nodes[e]) : Cardinality(CallsAt(e, v)) <= 1)

C33_Witness ==
    \E e \in Engines :
        /\ flowchart = every_message_flowchart
        /\ pc[e] = "returned"
        /\ Len(visited_nodes[e]) = 5
        /\ Len(calls[e]) = 5
        /\ answers[e][1].decision = "Maybe"

(***************************************************************************)
(* The activity assistant.                                                 *)
(***************************************************************************)
\* the visits of the current run at node id
VisitsAt(e, id) == {v \in 1..Len(visited_nodes[e]) : visited_nodes[e][v] = id}

\* the model's label at visit v was exactly "Yes"
SaidYes(e, v) ==
    /\ v \in VisitsOf(e)
    /\ answers[e][v].kind = "decision"
    /\ answers[e][v].decision = "Yes"

(***************************************************************************)
(* C34.  Over every_message_flowchart, ExtractActivity is visited only     *)
(* right after a visit of CheckActivityMeasurement at which the model's    *)
(* label was exactly "Yes", and get_response returns a non-empty list of   *)
(* extracted activities only in such a run; a label that is no connection  *)
(* label at CheckActivityMeasurement leads to AskForMoreInformation, and   *)
(* get_response then returns an empty list.                                *)
(***************************************************************************)
C34_ExtractOnlyOnYes ==
    LET e == AssistantEngine
    IN  flowchart = every_message_flowchart =>
            /\ \A v \in VisitsAt(e, "ExtractActivity") :
                  /\ v > 1
                  /\ visited_nodes[e][v - 1] = "CheckActivityMeasurement"
                  /\ SaidYes(e, v - 1)
            /\ (assistant.pc = "returned" /\ assistant.activities # <<>>) =>
                  \E v \in VisitsAt(e, "CheckActivityMeasurement") : SaidYes(e, v)
            /\ \A v \in VisitsAt(e, "CheckActivityMeasurement") \cap VisitsOf(e) :
                  (/\ answers[e][v].kind = "decision"
                   /\ ~DictHas(VisitedNode(e, v).connections, answers[e][v].decision)) =>
                      /\ StandsAt(e, v, "AskForMoreInformation")
                      /\ assistant.pc = "returned" => assistant.activities = <<>>

C34_Witness ==
    /\ flowchart = every_message_flowchart
    /\ assistant.pc = "returned"
    /\ assistant.activities = <<LoggedRun>>
    /\ visited_nodes[AssistantEngine][3] = "CheckActivityMeasurement"
    /\ answers[AssistantEngine][3].decision = "Yes"
    /\ visited_nodes[AssistantEngine][4] = "ExtractActivity"

\* a get_response call is made in this step
CallMade == Len(assistant'.log) = Len(assistant.log) + 1

(***************************************************************************)
(* C35.  get_response picks the flowchart from the memory as it is before  *)
(* the incoming message is written: first_message_flowchart exactly when   *)
(* no stored message is younger than 1440 minutes when the call is made,   *)
(* every_message_flowchart otherwise.  So of two calls less than a day     *)
(* apart the second runs every_message_flowchart, also when the first ran  *)
(* first_message_flowchart.                                                *)
(***************************************************************************)
C35_FlowchartFromMemoryBeforeWrite ==
    /\ [][CallMade =>
            LET stored == memory[AssistantUser]
                young  == {i \in 1..Len(stored) : now' - stored[i].at < 1440}
            IN  /\ flowchart' = IF young = {} THEN first_message_flowchart
                                ELSE every_message_flowchart
                /\ assistant'.log[Len(assistant'.log)].flowchart = flowchart']_vars
    /\ [](\A i \in 1..(Len(assistant.log) - 1) :
            assistant.log[i + 1].at - assistant.log[i].at < 1440 =>
                assistant.log[i + 1].flowchart = every_message_flowchart)

C35_Witness ==
    /\ Len(assistant.log) = 2
    /\ assistant.log[1].flowchart = first_message_flowchart
    /\ assistant.log[2].flowchart = every_message_flowchart
    /\ assistant.log[2].at - assistant.log[1].at = 1
    /\ flowchart = every_message_flowchart

\* the messages written to the user's memory since the call began
WrittenByCall ==
    SubSeq(memory[AssistantUser], Len(assistant.before) + 1,
           Len(memory[AssistantUser]))

(***************************************************************************)
(* C36.  Memory write ordering in get_response: the user's message is in   *)
(* the memory before the run makes its first visit and the reply is not    *)
(* written while the run goes on; a call that has returned has written     *)
(* exactly the user's message and then the reply it returns, a call whose  *)
(* run raised has written the user's message and no reply; what the        *)
(* memory held before the call stays as it was.                            *)
(***************************************************************************)
C36_MemoryWriteOrder ==
    LET stored  == memory[AssistantUser]
        written == WrittenByCall
        user_message_only ==
            /\ Len(written) = 1
            /\ written[1].sender = AssistantUser
            /\ written[1].text = "hello"
    IN  assistant.pc # "idle" =>
            /\ IsPrefix(assistant.before, stored)
            /\ assistant.pc = "running" => user_message_only
            /\ assistant.pc = "raised" =>
                  user_message_only /\ pc[AssistantEngine] = "raised"
            /\ assistant.pc = "returned" =>
                  /\ Len(written) = 2
                  /\ written[1].sender = AssistantUser
                  /\ written[2].sender = "Jarvis"
                  /\ written[2].text = assistant.result
                  /\ pc[AssistantEngine] = "returned"

C36_Witness ==
    /\ assistant.pc = "returned"
    /\ Len(assistant.log) = 2
    /\ Len(memory[AssistantUser]) = 3
    /\ memory[AssistantUser][2].sender = AssistantUser
    /\ memory[AssistantUser][3].text = " text 2"
    /\ result[AssistantEngine].text = "Jarvis: text 2"

(***************************************************************************)
(* The notification routes.                                                *)
(***************************************************************************)
OwnershipRoutes == {"mark-notification-opened", "conclude-notification"}

\* C37: mark_notification_opened and conclude_notification change a
\* notification's status only when the notification exists and belongs to the
\* authenticated user (the answer is then 200 and only that notification
\* changes, to "opened" or "concluded"); a missing one is answered 404, another
\* user's 403 by mark-opened and 404 by conclude, and then the store is as it was.
C37_NotificationOwnership ==
    [][response'.route \in OwnershipRoutes =>
         LET id     == response'.asked
             found  == GetNotification(notifications, id)
             owned  == found # NoNotification /\ found.user_id = response'.user
             marked == response'.route = "mark-notification-opened"
         IN  IF owned
             THEN /\ response'.status = 200
                  /\ notifications' =
                        [notifications EXCEPT
                           ![id].status = IF marked THEN "opened" ELSE "concluded"]
             ELSE /\ notifications' = notifications
                  /\ response'.status =
                        IF found # NoNotification /\ marked THEN 403 ELSE 404
      ]_vars

\* a user asked to mark another user's processed notification as opened and was
\* refused: the notification is still processed
C37_Witness ==
    /\ response.route = "mark-notification-opened"
    /\ response.status = 403
    /\ notifications[response.asked].user_id # response.user
    /\ notifications[response.asked].status = "processed"

PushesTo(user) == {i \in DOMAIN pushes : pushes[i].user = user}

\* C38: process_scheduled_notification writes the assistant message to the
\* user's conversation memory only after the push notification was sent: every
\* message in a user's memory has its push, and the answers 400, 204 and the
\* raised failure come with no memory write.
C38_MemoryOnlyAfterPush ==
    \A user \in Users : Len(memory[user]) <= Cardinality(PushesTo(user))

\* C39: load_notifications returns no concluded notification, and when it is
\* done no notification it returned is still "processed" in the store: each
\* one it read as processed was marked opened exactly once by the call, no
\* other one was marked.
C39_LoadOpensProcessed ==
    response.route = "load-notifications" =>
        \A i \in DOMAIN response.returned :
            LET n     == response.returned[i]
                marks == {j \in DOMAIN response.opened : response.opened[j] = n.id}
            IN  /\ n.notification.status # "concluded"
                /\ n.notification.user_id = response.user
                /\ notifications[n.id].status # "processed"
                /\ IF n.notification.status = "processed"
                   THEN Cardinality(marks) = 1 /\ notifications[n.id].status = "opened"
                   ELSE marks = {} /\ notifications[n.id] = n.notification

\* a load that returned a processed notification and a concluded one was left out
C39_Witness ==
    /\ response.route = "load-notifications"
    /\ \E i \in DOMAIN response.returned :
          response.returned[i].notification.status = "processed"
    /\ \E id \in NotificationIds :
          /\ notifications[id].user_id = response.user
          /\ notifications[id].status = "concluded"

====
